---- MODULE Spec2Model ----
(***************************************************************************)
(* Model of the ESI resolver content script (src/js/content.js): the       *)
(* ESIProcessor engine, the document tree it rewrites, the statistics      *)
(* registry and the store it persists to.                                  *)
(*                                                                         *)
(* JavaScript runs one task at a time: a step of the model is one task, the *)
(* code from the event that starts it (a timer, a network answer, a         *)
(* message, a storage callback) up to the next await on a real              *)
(* asynchronous result (fetch, storage get, setTimeout).                    *)
(***************************************************************************)
EXTENDS Integers, Sequences, FiniteSets, TLC

\* ------------------------------------------------------------------ bounds
MaxPasses == 2      \* processESI timers that may be scheduled
MaxEvents == 2      \* change notifications and clearStats requests delivered
MaxTabLoads == 1    \* tabs that finish loading while the page is open
MaxTime == 4        \* the clock stops here
MaxFragments == 2   \* fragments another page records

\* ------------------------------------------------------------- basic values
Null == -1
NoSrc == "none"
Root == 0
Undefined == "undefined"

Passes == 1..MaxPasses

Range(s) == {s[i] : i \in DOMAIN s}

RECURSIVE SeqMax(_)
SeqMax(s) == IF s = <<>> THEN 0
             ELSE LET m == SeqMax(Tail(s)) IN IF Head(s) > m THEN Head(s) ELSE m

SetMax(S) == IF S = {} THEN 0 ELSE CHOOSE m \in S : \A x \in S : x <= m

RemoveAll(s, S) == SelectSeq(s, LAMBDA x : x \notin S)

IndexOf(s, x) == CHOOSE i \in DOMAIN s : s[i] = x

\* ---------------------------------------------------------------- the tree
\* A node is an element or a comment.  A comment's text is kept as the set of
\* the literal markers the code tests with String.includes, plus the value a
\* src="..." attribute in it has (NoSrc when it has none).
Element(tag, src) ==
    [type |-> "element", tag |-> tag, src |-> src, marks |-> {},
     role |-> "page", fid |-> 0, url |-> NoSrc, body |-> <<>>]

Comment(marks, src) ==
    [type |-> "comment", tag |-> "#comment", src |-> src, marks |-> marks,
     role |-> "page", fid |-> 0, url |-> NoSrc, body |-> <<>>]

INC == "<esi:include"
TRYOPEN == "<esi:try>"
TRYCLOSE == "</esi:try>"

\* node.parentNode
ParentNode(k, n) ==
    IF \E p \in DOMAIN k : n \in Range(k[p])
    THEN CHOOSE p \in DOMAIN k : n \in Range(k[p])
    ELSE Null

RECURSIVE Preorder(_, _)
RECURSIVE PreorderKids(_, _)
\* the nodes of the subtree of n in document order
Preorder(k, n) == <<n>> \o PreorderKids(k, k[n])
PreorderKids(k, s) ==
    IF s = <<>> THEN <<>> ELSE Preorder(k, Head(s)) \o PreorderKids(k, Tail(s))

Descendants(k, n) == Range(PreorderKids(k, k[n]))

RECURSIVE TreeRoot(_, _)
TreeRoot(k, n) == IF ParentNode(k, n) = Null THEN n ELSE TreeRoot(k, ParentNode(k, n))

\* the node is in the document (connected to documentElement)
Attached(k, n) == TreeRoot(k, n) = Root

RECURSIVE InclusiveAncestors(_, _)
InclusiveAncestors(k, n) ==
    IF n = Null THEN {} ELSE {n} \cup InclusiveAncestors(k, ParentNode(k, n))

IsTryTag(a) == a.type = "element" /\ a.tag = "esi:try"
IsIncludeTag(a) == a.type = "element" /\ a.tag \in {"esi:include", "esi-include"}

\* document.querySelectorAll(selector): the attached elements matching, in
\* document order.  The page is an HTML document, so a type selector matches
\* on the lowercased local name: 'esi\:try' and 'ESI\:TRY' select the same
\* elements.
QuerySelectorAll(k, a, tags) ==
    SelectSeq(Preorder(k, Root), LAMBDA n : a[n].type = "element" /\ a[n].tag \in tags)

\* element.querySelector(selector list): first matching descendant or Null
QuerySelector(k, a, n, tags) ==
    LET m == SelectSeq(PreorderKids(k, k[n]),
                       LAMBDA d : a[d].type = "element" /\ a[d].tag \in tags)
    IN IF m = <<>> THEN Null ELSE Head(m)

\* TreeWalker(documentElement, SHOW_COMMENT): every comment in document order
WalkComments(k, a) ==
    SelectSeq(Preorder(k, Root), LAMBDA n : a[n].type = "comment")

\* walker.currentNode = start; repeated walker.nextNode(): the comments that
\* follow start in the tree start lives in
CommentsAfter(k, a, start) ==
    LET order == Preorder(k, TreeRoot(k, start))
        i == IndexOf(order, start)
    IN SelectSeq(SubSeq(order, i + 1, Len(order)), LAMBDA n : a[n].type = "comment")

InsertAt(s, i, x) == SubSeq(s, 1, i - 1) \o <<x>> \o SubSeq(s, i, Len(s))

\* parent.replaceChild(new, old)
ReplaceChild(k, new, old) ==
    LET p == ParentNode(k, old)
    IN [n \in DOMAIN k \cup {new} |->
          IF n = new THEN <<>>
          ELSE IF n = p THEN [i \in DOMAIN k[p] |-> IF k[p][i] = old THEN new ELSE k[p][i]]
          ELSE k[n]]

\* range.setStartBefore(s); range.setEndAfter(e); range.deleteContents();
\* range.insertNode(new).  deleteContents removes every node wholly inside the
\* range from its parent (an element that holds the end comment has its end
\* after the range and stays); the range then collapses to its start, or to just
\* after the highest ancestor of the start container that does not hold the end.
RangeReplace(k, s, e, new) ==
    LET order == Preorder(k, TreeRoot(k, s))
        pos(n) == IndexOf(order, n)
        last(n) == pos(n) + Len(Preorder(k, n)) - 1
        sp == ParentNode(k, s)
        ep == ParentNode(k, e)
        contained == {n \in Range(order) : /\ pos(n) >= pos(s)
                                           /\ last(n) <= pos(e)
                                           /\ n \notin InclusiveAncestors(k, ep)}
        refs == {r \in InclusiveAncestors(k, sp) :
                    /\ r \notin InclusiveAncestors(k, ep)
                    /\ ParentNode(k, r) \in InclusiveAncestors(k, ep)}
        ref == CHOOSE r \in refs : TRUE
        inStart == sp \in InclusiveAncestors(k, ep)
        at == IF inStart THEN sp ELSE ParentNode(k, ref)
        off == IF inStart THEN IndexOf(k[sp], s) ELSE IndexOf(k[at], ref) + 1
    IN [n \in DOMAIN k \cup {new} |->
          IF n = new THEN <<>>
          ELSE IF n \in contained THEN k[n]
          ELSE IF n = at THEN RemoveAll(InsertAt(k[n], off, new), contained)
          ELSE RemoveAll(k[n], contained)]

\* --------------------------------------------------------------- documents
U_A == "/a.html"
U_B == "https://h/b.html"
Urls == {U_A, U_B}

Html == Element("html", NoSrc)

\* <esi:include src=a/> <!-- <esi:include src=b> -->
DocIncludes ==
    [attrs |-> <<Element("esi:include", U_A), Comment({INC}, U_B)>>,
     kids |-> <<<<>>, <<>>>>, top |-> <<1, 2>>]

\* <esi:try><esi:include src=a/></esi:try> <esi-include src=b/>
DocTry ==
    [attrs |-> <<Element("esi:try", NoSrc), Element("esi:include", U_A),
                 Element("esi-include", U_B)>>,
     kids |-> <<<<2>>, <<>>, <<>>>>, top |-> <<1, 3>>]

\* <esi:try><esi:try><esi:include src=a/></esi:try></esi:try>
DocNestedTry ==
    [attrs |-> <<Element("esi:try", NoSrc), Element("esi:try", NoSrc),
                 Element("esi:include", U_A)>>,
     kids |-> <<<<2>>, <<3>>, <<>>>>, top |-> <<1>>]

\* <esi:try><esi:include/><esi:include src=a/></esi:try>
DocTryNoSrc ==
    [attrs |-> <<Element("esi:try", NoSrc), Element("esi:include", NoSrc),
                 Element("esi:include", U_A)>>,
     kids |-> <<<<2, 3>>, <<>>, <<>>>>, top |-> <<1>>]

\* <!-- <esi:include src=a> --> <div><!-- <esi:include> --></div>
DocComments ==
    [attrs |-> <<Comment({INC}, U_A), Element("div", NoSrc), Comment({INC}, NoSrc)>>,
     kids |-> <<<<>>, <<3>>, <<>>>>, top |-> <<1, 2>>]

\* <!-- <esi:try><esi:include src=a> --> <!-- <esi:include src=b> --> <!-- </esi:try> -->
DocCommentTry ==
    [attrs |-> <<Comment({TRYOPEN, INC}, U_A), Comment({INC}, U_B),
                 Comment({TRYCLOSE}, NoSrc)>>,
     kids |-> <<<<>>, <<>>, <<>>>>, top |-> <<1, 2, 3>>]

\* <!-- <esi:try><esi:include src=a> --> <div><p/><!-- </esi:try> --><p/></div>
DocCommentTryNested ==
    [attrs |-> <<Comment({TRYOPEN, INC}, U_A), Element("div", NoSrc), Element("p", NoSrc),
                 Comment({TRYCLOSE}, NoSrc), Element("p", NoSrc)>>,
     kids |-> <<<<>>, <<3, 4, 5>>, <<>>, <<>>, <<>>>>, top |-> <<1, 2>>]

\* <p/><div><!-- <esi:try><esi:include src=a> --><p/></div><!-- </esi:try> --><p/>
DocCommentTryInner ==
    [attrs |-> <<Element("p", NoSrc), Element("div", NoSrc), Comment({TRYOPEN, INC}, U_A),
                 Element("p", NoSrc), Comment({TRYCLOSE}, NoSrc), Element("p", NoSrc)>>,
     kids |-> <<<<>>, <<3, 4>>, <<>>, <<>>, <<>>, <<>>>>, top |-> <<1, 2, 5, 6>>]

\* <!-- <esi:try><esi:include src=a> --><div><p/></div><!-- </esi:try> --><!-- </esi:try> -->
DocCommentTryTwice ==
    [attrs |-> <<Comment({TRYOPEN, INC}, U_A), Element("div", NoSrc), Element("p", NoSrc),
                 Comment({TRYCLOSE}, NoSrc), Comment({TRYCLOSE}, NoSrc)>>,
     kids |-> <<<<>>, <<3>>, <<>>, <<>>, <<>>>>, top |-> <<1, 2, 4, 5>>]

\* <!-- <esi:try><esi:include src=a> --><p/><div><!-- <esi:include src=b> --></div>
DocCommentTryOpen ==
    [attrs |-> <<Comment({TRYOPEN, INC}, U_A), Element("p", NoSrc), Element("div", NoSrc),
                 Comment({INC}, U_B)>>,
     kids |-> <<<<>>, <<>>, <<4>>, <<>>>>, top |-> <<1, 2, 3>>]

\* documents with a try block written as comments
TryDocs == {DocCommentTry, DocCommentTryNested, DocCommentTryInner, DocCommentTryTwice,
            DocCommentTryOpen}

Docs == {DocIncludes, DocTry, DocNestedTry, DocTryNoSrc, DocComments, DocCommentTry}

\* the tree of a document: node 0 is documentElement
DocKids(d) == [n \in 0..Len(d.attrs) |-> IF n = Root THEN d.top ELSE d.kids[n]]
DocAttrs(d) == [n \in 0..Len(d.attrs) |-> IF n = Root THEN Html ELSE d.attrs[n]]

\* ------------------------------------------------------------------- state
VARIABLES
    kids,               \* node -> sequence of child nodes (the live tree and detached subtrees)
    attrs,              \* node -> its attributes
    stEnabled,          \* settings store: value under esiEnabled
    stSettings,         \* settings store: values under the other setting keys
    store,              \* stats store: entry under esiStats_<page url>
    booted,             \* init() has passed `await this.loadSettings()`
    enabled,            \* this.enabled
    customHeaders,      \* this.customHeaders
    forwardHeaders,     \* this.forwardHeaders
    forwardCookies,     \* this.forwardCookies
    executeScripts,     \* this.executeScripts
    stats,              \* this.stats
    fragmentCounter,    \* this.fragmentCounter
    processedElements,  \* this.processedElements
    loadPending,        \* the storage get of loadStats has not called back yet
    loadResult,         \* what that get read
    pc,                 \* per processESI invocation: where it stands
    snap,               \* per invocation: the list the current loop iterates
    idx,                \* per invocation: position in snap
    call,               \* per invocation: the locals of its fetchAndReplaceESI call
    scriptJobs,         \* the deferred script loops of extractAndExecuteScripts
    scheduled,          \* number of processESI timers created
    nEvents,            \* change notifications and clearStats requests delivered
    nClears,            \* history: clearStats requests handled
    issued,             \* history: anchors whose fetch was issued since the last clearStats
    counted,            \* history: per invocation, the anchors for which it did total++
    discovered,         \* history: per invocation, the anchors with a source it put in a snapshot
    phases,             \* history: per invocation, the phases whose scan ran
    completed,          \* history: full passes finished since the last clearStats
    repeat,             \* history: per invocation, it started after a full pass, none in flight
    icon,               \* background: the browser-action icon, "on" or "off"
    iconReads,          \* background: the storage reads of updateIconForCurrentState
    cleanups,           \* background: the storage reads of cleanupOldStats
    bgInbox,            \* background: change notifications and updateIcon messages under way
    popupPc,            \* popup: where its clearStats stands
    now,                \* Date.now(), in half hours
    others              \* storage.local: the entries under the keys of settings and other pages

vars == <<kids, attrs, stEnabled, stSettings, store, booted, enabled, customHeaders,
          forwardHeaders, forwardCookies, executeScripts, stats, fragmentCounter,
          processedElements, loadPending, loadResult, pc, snap, idx, call,
          scriptJobs, scheduled, nEvents, nClears, issued, counted, discovered,
          phases, completed, repeat, icon, iconReads, cleanups, bgInbox,
          popupPc, now, others>>

storageVars == <<now, others>>
extensionVars == <<icon, iconReads, cleanups, bgInbox, popupPc, storageVars>>
docVars == <<kids, attrs>>
engineVars == <<enabled, stats, fragmentCounter, processedElements>>
settingVars == <<stSettings, customHeaders, forwardHeaders, forwardCookies, executeScripts>>
passVars == <<pc, snap, idx, call>>
histVars == <<issued, counted, discovered, phases, completed, repeat>>

\* -------------------------------------------------------------- statistics
EmptyStats == [total |-> 0, successful |-> 0, failed |-> 0, fragments |-> <<>>]

NoError == <<>>
\* `HTTP ${response.status}: ${response.statusText}`
HttpMessage(status, statusText) == <<"HTTP ", status, ": ", statusText>>
NetworkMessage == <<"Failed to fetch">>

StatusText(status) == IF status = "404" THEN "Not Found" ELSE "Internal Server Error"
BadStatuses == {"404"}
Bodies == {"Hi"}

Origin == "https://h"
IsAbsolute(u) == u = U_B
\* resolveUrl: an absolute URL is returned as is, a rooted path is resolved
\* against the page
ResolveUrl(u) == IF IsAbsolute(u) THEN u ELSE Origin \o u

\* variant: every record is written as a success
Fragment_AlwaysSuccess(id, url, success, error) ==
    [id |-> id, url |-> url, resolvedUrl |-> ResolveUrl(url),
     success |-> TRUE, error |-> error]

Fragment(id, url, success, error) ==
    [id |-> id, url |-> url, resolvedUrl |-> ResolveUrl(url),
     success |-> success, error |-> error]

\* a history a previous load of the page left in the store
OldStats == [total |-> 1, successful |-> 1, failed |-> 0,
             fragments |-> <<Fragment(1, U_B, TRUE, NoError)>>]

Absent == [present |-> FALSE, value |-> EmptyStats]
Stored(v) == [present |-> TRUE, value |-> v]

Truthy(v) == v = "true"

\* ---------------------------------------------------------------- settings
\* Stored setting values are written as the store holds them: "true", "false",
\* a header list, or Undefined when the key is absent.
NoChange == "nochange"              \* the key is not in the `changes` object
EmptyList == "[]"
HeadersA == "[{X-A: 1}, {: 2}]"     \* one usable entry, one with an empty name

HeadersRepeat == "[{X-A: 1}, {X-A: 2}]"                 \* one name twice
HeadersOverride == "[{Accept: a}, {User-Agent: u}]"     \* names the engine sets itself
HeadersBlank == "[{X-A: 1}, {X-A: }, {: }]"             \* rows the editor has not filled in
HeaderLists == {EmptyList, HeadersA, HeadersRepeat, HeadersOverride, HeadersBlank}

\* the entries of a header list
HeaderEntries(list) ==
    IF list = HeadersA
    THEN <<[name |-> "X-A", value |-> "1"], [name |-> "", value |-> "2"]>>
    ELSE IF list = HeadersRepeat
    THEN <<[name |-> "X-A", value |-> "1"], [name |-> "X-A", value |-> "2"]>>
    ELSE IF list = HeadersOverride
    THEN <<[name |-> "Accept", value |-> "a"], [name |-> "User-Agent", value |-> "u"]>>
    ELSE IF list = HeadersBlank
    THEN <<[name |-> "X-A", value |-> "1"], [name |-> "X-A", value |-> ""],
           [name |-> "", value |-> ""]>>
    ELSE <<>>

\* result.esiEnabled !== false
NotFalse(v) == IF v = "false" THEN "false" ELSE "true"
\* value || []
OrEmptyList(v) == IF v = Undefined THEN EmptyList ELSE v
\* value || false
OrFalse(v) == IF v = "true" THEN "true" ELSE "false"

\* no setting key but esiEnabled is in the store
AbsentSettings ==
    [customHeaders |-> Undefined, forwardHeaders |-> Undefined,
     forwardCookies |-> Undefined, executeScripts |-> Undefined]
\* what runtime.onInstalled writes (with esiEnabled: true)
InstalledSettings ==
    [customHeaders |-> EmptyList, forwardHeaders |-> Undefined,
     forwardCookies |-> Undefined, executeScripts |-> "false"]
\* what the popup saves once every option has been switched on
CustomSettings ==
    [customHeaders |-> HeadersA, forwardHeaders |-> "true",
     forwardCookies |-> "true", executeScripts |-> "true"]

\* a `changes` object without keys
NoChanges ==
    [esiEnabled |-> NoChange, customHeaders |-> NoChange, forwardHeaders |-> NoChange,
     forwardCookies |-> NoChange, executeScripts |-> NoChange]

\* the store entry after a write that produced the change c
Written(old, c) == IF c = NoChange THEN old ELSE c

\* --------------------------------------------------------------- the request
BaseHeaders ==
    ("Accept" :> "text/html,application/xhtml+xml,application/xml;q=0.9,*/*;q=0.8")
        @@ ("X-Requested-With" :> "XMLHttpRequest")
ForwardedHeaders ==
    ("User-Agent" :> "navigator.userAgent") @@ ("Accept-Language" :> "navigator.language")

RECURSIVE AddCustomHeaders_FirstWins(_, _)
\* variant: a custom entry does not replace a header that is already set
AddCustomHeaders_FirstWins(headers, entries) ==
    IF entries = <<>> THEN headers
    ELSE LET header == Head(entries)
         IN AddCustomHeaders_FirstWins(IF header.name # "" /\ header.value # ""
                                       THEN headers @@ (header.name :> header.value)
                                       ELSE headers,
                                       Tail(entries))

RECURSIVE AddCustomHeaders(_, _)
\* customHeaders.forEach: an entry with a name and a value sets that header
AddCustomHeaders(headers, entries) ==
    IF entries = <<>> THEN headers
    ELSE LET header == Head(entries)
         IN AddCustomHeaders(IF header.name # "" /\ header.value # ""
                             THEN (header.name :> header.value) @@ headers
                             ELSE headers,
                             Tail(entries))

\* fetchOptions as built from the settings ch, fh, fc
RequestOptions(ch, fh, fc) ==
    [headers |-> AddCustomHeaders(IF Truthy(fh) THEN ForwardedHeaders @@ BaseHeaders
                                  ELSE BaseHeaders,
                                  HeaderEntries(ch)),
     credentials |-> IF Truthy(fc) THEN "include" ELSE "same-origin"]

\* fetchOptions as fetchAndReplaceESI builds them from the held settings
FetchOptions == RequestOptions(customHeaders, forwardHeaders, forwardCookies)

NoCall == [element |-> Null, url |-> NoSrc, originalComment |-> {},
           isTryBlock |-> FALSE, fragmentId |-> 0, loop |-> "none",
           options |-> RequestOptions(EmptyList, "false", "false")]

\* ---------------------------------------------------------------- scripts
ScriptMarkup == "<p>x</p><script>a()</script><script src=e.js></script><script>b()</script>"
ThrowMarkup == "<p>y</p><script>throw 1</script><script>b()</script>"
ScriptBodies == {ScriptMarkup, ThrowMarkup}

\* DOMParser and doc.querySelectorAll('script'): the scripts of the markup
ScriptsOf(content) ==
    IF content = ScriptMarkup THEN <<"inline", "external", "inline">>
    ELSE IF content = ThrowMarkup THEN <<"inline-throws", "inline">>
    ELSE <<>>

\* doc.body.innerHTML once the scripts have been removed
ContentWithoutScripts(content) ==
    IF content = ScriptMarkup THEN "<p>x</p>"
    ELSE IF content = ThrowMarkup THEN "<p>y</p>"
    ELSE content

\* variant: the scripts are extracted whatever executeScripts says
ExtractAndExecuteScripts_Always(content) ==
    [content |-> ContentWithoutScripts(content), deferred |-> TRUE,
     scripts |-> ScriptsOf(content)]

\* extractAndExecuteScripts: the markup to insert and the deferred loop, if any
ExtractAndExecuteScripts(content) ==
    IF ~Truthy(executeScripts)
    THEN [content |-> content, deferred |-> FALSE, scripts |-> <<>>]
    ELSE [content |-> ContentWithoutScripts(content), deferred |-> TRUE,
          scripts |-> ScriptsOf(content)]

\* variant: the scripts are run while the markup is extracted, without timer
ScriptJob_Immediate(fid, scripts) ==
    [fid |-> fid, scripts |-> scripts, next |-> Len(scripts) + 1,
     ran |-> [i \in DOMAIN scripts |-> i], state |-> "done"]

\* the loop `for (const script of scripts) await this.executeScript(...)` set
\* up for fragment fid: next is the script it stands at, ran the scripts that
\* were appended to the container
ScriptJob(fid, scripts) ==
    [fid |-> fid, scripts |-> scripts, next |-> 1, ran |-> <<>>, state |-> "timer"]

RECURSIVE RunScripts_NoWait(_)
\* variant: executeScript is not awaited, the loop goes on past an external
\* script at once
RunScripts_NoWait(job) ==
    IF job.next > Len(job.scripts) THEN [job EXCEPT !.state = "done"]
    ELSE RunScripts_NoWait([job EXCEPT !.ran = Append(@, job.next), !.next = @ + 1])

RECURSIVE RunScripts(_)
\* the loop from job.next on: an inline script is appended and run (what it
\* throws is reported by the page, not to executeScript); an external one is
\* appended and the loop waits for its load or error event
RunScripts(job) ==
    IF job.next > Len(job.scripts) THEN [job EXCEPT !.state = "done"]
    ELSE IF job.scripts[job.next] = "external"
         THEN [job EXCEPT !.ran = Append(@, job.next), !.state = "loading"]
         ELSE RunScripts([job EXCEPT !.ran = Append(@, job.next), !.next = @ + 1])

\* ----------------------------------------------------------- tree surgery
NewNode == SetMax(DOMAIN attrs) + 1

\* variant: the marker id is read from this.fragmentCounter when the body has
\* arrived instead of the id taken at the start of the call
Container_LiveCounter(c, body) ==
    [type |-> "element", tag |-> "div", src |-> NoSrc, marks |-> {},
     role |-> "container", fid |-> fragmentCounter, url |-> c.url, body |-> <<body>>]

Container(c, body) ==
    [type |-> "element", tag |-> "div", src |-> NoSrc, marks |-> {},
     role |-> "container", fid |-> c.fragmentId, url |-> c.url, body |-> <<body>>]

ErrorPanel(c, message) ==
    [type |-> "element", tag |-> "div", src |-> NoSrc, marks |-> {},
     role |-> "esi-error", fid |-> c.fragmentId, url |-> c.url, body |-> message]

\* variant: without a closing comment the opening comment is replaced and the
\* siblings that follow it are dropped
ReplaceCommentTryBlock_DropsRest(k, a, startComment, replacement) ==
    LET closing == SelectSeq(CommentsAfter(k, a, startComment),
                             LAMBDA n : TRYCLOSE \in a[n].marks)
        p == ParentNode(k, startComment)
    IN IF closing # <<>> THEN RangeReplace(k, startComment, Head(closing), replacement)
       ELSE IF p # Null
            THEN [n \in DOMAIN k \cup {replacement} |->
                    IF n = replacement THEN <<>>
                    ELSE IF n = p
                         THEN SubSeq(k[p], 1, IndexOf(k[p], startComment) - 1)
                              \o <<replacement>>
                         ELSE k[n]]
            ELSE k

\* variant: the closing comment is not looked for
ReplaceCommentTryBlock_OpeningOnly(k, a, startComment, replacement) ==
    IF ParentNode(k, startComment) # Null
    THEN ReplaceChild(k, replacement, startComment)
    ELSE k

ReplaceCommentTryBlock(k, a, startComment, replacement) ==
    LET closing == SelectSeq(CommentsAfter(k, a, startComment),
                             LAMBDA n : TRYCLOSE \in a[n].marks)
    IN IF closing # <<>> THEN RangeReplace(k, startComment, Head(closing), replacement)
       ELSE IF ParentNode(k, startComment) # Null
            THEN ReplaceChild(k, replacement, startComment)
            ELSE k

\* variant: the replacement is built but never put into the tree
ReplaceESIElement_Forgotten(k, a, element, replacement, originalComment, isTryBlock) == k

ReplaceESIElement(k, a, element, replacement, originalComment, isTryBlock) ==
    IF ParentNode(k, element) = Null THEN k
    ELSE IF isTryBlock \/ (originalComment # {} /\ TRYOPEN \in originalComment)
         THEN IF a[element].type = "comment"
              THEN ReplaceCommentTryBlock(k, a, element, replacement)
              ELSE ReplaceChild(k, replacement, element)
         ELSE ReplaceChild(k, replacement, element)

\* variant: a replacement whose anchor has lost its parent is put in the
\* place of the document's first node instead
Replaced_Misplaced(c, rec) ==
    LET k2 == IF ParentNode(kids, c.element) = Null /\ kids[Root] # <<>>
              THEN ReplaceChild(kids, NewNode, Head(kids[Root]))
              ELSE ReplaceESIElement(kids, attrs, c.element, NewNode, c.originalComment,
                                     c.isTryBlock)
    IN [kids |-> k2,
        attrs |-> [n \in DOMAIN k2 |-> IF n \in DOMAIN attrs THEN attrs[n] ELSE rec]]

\* the tree and the attributes after replacing the anchor of call c by node rec
Replaced(c, rec) ==
    LET k2 == ReplaceESIElement(kids, attrs, c.element, NewNode, c.originalComment,
                                c.isTryBlock)
    IN [kids |-> k2,
        attrs |-> [n \in DOMAIN k2 |-> IF n \in DOMAIN attrs THEN attrs[n] ELSE rec]]

IsInsideESITryBlock(k, a, element) ==
    \E t \in InclusiveAncestors(k, ParentNode(k, element)) : IsTryTag(a[t])

IncludeTags == {"esi:include", "esi-include"}

\* ------------------------------------------------- background and popup
\* the storage reads of the background script: read 0 is issued when the
\* script starts, read r when the r-th tab finishes loading
Reads == 0..MaxTabLoads
TabLoads == 1..MaxTabLoads

\* updateIcon(enabled): `enabled ? on : off`
IconFor(value) == IF Truthy(value) THEN "on" ELSE "off"

\* Time is counted in half hours: 60 * 60 * 1000 ms
Hour == 2
\* Date.now() when the model starts
StartTime == 3

\* the keys of storage.local besides esiEnabled, the engine's settings and
\* the modelled page's statistics: a setting, and the statistics of two
\* other pages
StatsPrefix == "esiStats_"
PageUrls == {"https://h/x", "https://h/y"}
StatsKeys == {StatsPrefix \o url : url \in PageUrls}
StorageKeys == {"debugLogging"} \cup StatsKeys

\* key.startsWith('esiStats_')
StartsWithStatsPrefix(key) == \E url \in PageUrls : key = StatsPrefix \o url

\* the value under a setting key (`false`: it has no fragments); the value
\* under a statistics key is given by the timestamps of its fragments
\* (hasFragments: `stats.fragments` is defined)
SettingEntry == [hasFragments |-> FALSE, fragments |-> <<>>]
StatsEntry(timestamps) == [hasFragments |-> TRUE, fragments |-> timestamps]

\* storage.local holding the setting and nothing of other pages
NoEntries == [key \in {"debugLogging"} |-> SettingEntry]

\* storage.local.remove(key) for every key of the set
RemoveKeys(data, keys) == [key \in DOMAIN data \ keys |-> data[key]]

\* Math.max(...stats.fragments.map(f => f.timestamp || 0))
LatestTimestamp(fragments) == SeqMax(fragments)

\* variant: the oldest fragment decides
Expired_Oldest(entry, cutoffTime) ==
    /\ entry.hasFragments
    /\ Len(entry.fragments) > 0
    /\ \E i \in DOMAIN entry.fragments : entry.fragments[i] < cutoffTime

\* cleanupOldStats, the test on one entry: it has fragments and the latest
\* one lies before the cutoff
Expired(entry, cutoffTime) ==
    /\ entry.hasFragments
    /\ Len(entry.fragments) > 0
    /\ LatestTimestamp(entry.fragments) < cutoffTime

\* cleanupOldStats, the forEach over Object.keys(allData): the keys for
\* which storage.local.remove is called
KeysToRemove(allData, cutoffTime) ==
    {key \in DOMAIN allData : /\ StartsWithStatsPrefix(key)
                              /\ Expired(allData[key], cutoffTime)}

NoCleanup == [state |-> "none", seen |-> Absent, old |-> FALSE, remove |-> FALSE,
              cutoffTime |-> 0, allData |-> NoEntries]

\* the background script and the popup left aside
ExtensionIdle ==
    /\ icon = "on"
    /\ iconReads = [r \in Reads |-> "none"]
    /\ cleanups = [r \in TabLoads |-> NoCleanup]
    /\ bgInbox = <<>>
    /\ popupPc = "idle"
    /\ now = StartTime
    /\ others = NoEntries

\* the background script has started and the read that
\* updateIconForCurrentState() issued at startup has set the icon
BackgroundStart ==
    /\ icon = IconFor(NotFalse(stEnabled))
    /\ iconReads = [r \in Reads |-> IF r = 0 THEN "done" ELSE "none"]
    /\ cleanups = [r \in TabLoads |-> NoCleanup]
    /\ bgInbox = <<>>
    /\ popupPc = "idle"
    /\ now = StartTime
    /\ others = NoEntries

\* -------------------------------------------------------------------- Init
\* The state once the constructor has run and init() waits for loadSettings,
\* for a page out of docs, a stats entry out of stores, an esiEnabled entry
\* out of flags and the other setting entries out of settings.
Boot(docs, stores, flags, settings) ==
    /\ \E d \in docs : kids = DocKids(d) /\ attrs = DocAttrs(d)
    /\ stEnabled \in flags
    /\ stSettings \in settings
    /\ store \in stores
    /\ booted = FALSE
    /\ enabled = "true"
    /\ customHeaders = EmptyList
    /\ forwardHeaders = Undefined
    /\ forwardCookies = Undefined
    /\ executeScripts = "false"
    /\ scriptJobs = <<>>
    /\ nClears = 0
    /\ stats = EmptyStats
    /\ fragmentCounter = 0
    /\ processedElements = {}
    /\ loadPending = FALSE
    /\ loadResult = Absent
    /\ pc = [p \in Passes |-> "none"]
    /\ snap = [p \in Passes |-> <<>>]
    /\ idx = [p \in Passes |-> 1]
    /\ call = [p \in Passes |-> NoCall]
    /\ scheduled = 0
    /\ nEvents = 0
    /\ issued = <<>>
    /\ counted = [p \in Passes |-> <<>>]
    /\ discovered = [p \in Passes |-> {}]
    /\ phases = [p \in Passes |-> <<>>]
    /\ completed = 0
    /\ repeat = [p \in Passes |-> FALSE]

Init ==
    /\ Boot(Docs, {Absent, Stored(OldStats)}, {Undefined, "true", "false"},
            {AbsentSettings})
    /\ ExtensionIdle

\* setTimeout(() => this.processESI(), 100)
ScheduleProcessESI ==
    /\ scheduled' = scheduled + 1
    /\ pc' = [pc EXCEPT ![scheduled + 1] = "timer"]

\* init() after `await this.loadSettings()`: the settings are taken from the
\* store, loadStats issues its read, the first pass is scheduled and the
\* listeners are registered.
InitContinue ==
    /\ ~booted
    /\ booted' = TRUE
    /\ enabled' = NotFalse(stEnabled)
    /\ customHeaders' = OrEmptyList(stSettings.customHeaders)
    /\ forwardHeaders' = OrFalse(stSettings.forwardHeaders)
    /\ forwardCookies' = OrFalse(stSettings.forwardCookies)
    /\ executeScripts' = OrFalse(stSettings.executeScripts)
    /\ loadPending' = TRUE
    /\ loadResult' = store
    /\ IF stEnabled # "false" THEN ScheduleProcessESI ELSE UNCHANGED <<scheduled, pc>>
    /\ UNCHANGED <<docVars, stEnabled, stSettings, store, stats, fragmentCounter,
                   processedElements, snap, idx, call, scriptJobs, nEvents, nClears,
                   histVars, extensionVars>>

\* loadStats: the callback of storage.local.get
LoadStatsCallback ==
    /\ loadPending
    /\ loadPending' = FALSE
    /\ IF loadResult.present
       THEN /\ stats' = loadResult.value
            /\ fragmentCounter' =
                 SeqMax([i \in DOMAIN loadResult.value.fragments |->
                            loadResult.value.fragments[i].id])
       ELSE UNCHANGED <<stats, fragmentCounter>>
    /\ UNCHANGED <<docVars, stEnabled, settingVars, store, booted, enabled,
                   processedElements, loadResult, passVars, scriptJobs, scheduled,
                   nEvents, nClears, histVars, extensionVars>>

\* variant: any notification for esiEnabled schedules a pass
OnChanged_AlwaysSchedules(changes) ==
    /\ booted
    /\ nEvents < MaxEvents
    /\ Truthy(changes.esiEnabled) => scheduled < MaxPasses
    /\ nEvents' = nEvents + 1
    /\ stEnabled' = Written(stEnabled, changes.esiEnabled)
    /\ stSettings' =
          [customHeaders |-> Written(stSettings.customHeaders, changes.customHeaders),
           forwardHeaders |-> Written(stSettings.forwardHeaders, changes.forwardHeaders),
           forwardCookies |-> Written(stSettings.forwardCookies, changes.forwardCookies),
           executeScripts |-> Written(stSettings.executeScripts, changes.executeScripts)]
    /\ IF changes.esiEnabled # NoChange
       THEN /\ enabled' = changes.esiEnabled
            /\ IF scheduled < MaxPasses THEN ScheduleProcessESI
               ELSE UNCHANGED <<scheduled, pc>>
       ELSE UNCHANGED <<enabled, scheduled, pc>>
    /\ customHeaders' = IF changes.customHeaders # NoChange
                        THEN OrEmptyList(changes.customHeaders) ELSE customHeaders
    /\ executeScripts' = IF changes.executeScripts # NoChange
                         THEN OrFalse(changes.executeScripts) ELSE executeScripts
    /\ UNCHANGED <<forwardHeaders, forwardCookies>>
    /\ UNCHANGED <<docVars, store, booted, stats, fragmentCounter, processedElements,
                   loadPending, loadResult, snap, idx, call, scriptJobs, nClears,
                   histVars>>

\* storage.onChanged listener of the engine: the store has taken the written
\* values and the listener runs with the `changes` object
OnChanged(changes) ==
    /\ booted
    /\ nEvents < MaxEvents
    /\ Truthy(changes.esiEnabled) => scheduled < MaxPasses
    /\ nEvents' = nEvents + 1
    /\ stEnabled' = Written(stEnabled, changes.esiEnabled)
    /\ stSettings' =
          [customHeaders |-> Written(stSettings.customHeaders, changes.customHeaders),
           forwardHeaders |-> Written(stSettings.forwardHeaders, changes.forwardHeaders),
           forwardCookies |-> Written(stSettings.forwardCookies, changes.forwardCookies),
           executeScripts |-> Written(stSettings.executeScripts, changes.executeScripts)]
    /\ IF changes.esiEnabled # NoChange
       THEN /\ enabled' = changes.esiEnabled
            /\ IF Truthy(changes.esiEnabled) THEN ScheduleProcessESI
               ELSE UNCHANGED <<scheduled, pc>>
       ELSE UNCHANGED <<enabled, scheduled, pc>>
    /\ customHeaders' = IF changes.customHeaders # NoChange
                        THEN OrEmptyList(changes.customHeaders) ELSE customHeaders
    /\ executeScripts' = IF changes.executeScripts # NoChange
                         THEN OrFalse(changes.executeScripts) ELSE executeScripts
    /\ UNCHANGED <<forwardHeaders, forwardCookies>>
    /\ UNCHANGED <<docVars, store, booted, stats, fragmentCounter, processedElements,
                   loadPending, loadResult, snap, idx, call, scriptJobs, nClears,
                   histVars>>

\* a write to the settings store and the engine's listener, the rest of the
\* extension left aside
StorageChanged(changes) ==
    /\ OnChanged(changes)
    /\ UNCHANGED extensionVars

\* a change of esiEnabled alone
EnabledChange(v) == [NoChanges EXCEPT !.esiEnabled = v]

\* variant: the id counter survives the reset
ClearStats_KeepsCounter ==
    /\ booted
    /\ nEvents < MaxEvents
    /\ nEvents' = nEvents + 1
    /\ nClears' = nClears + 1
    /\ stats' = EmptyStats
    /\ processedElements' = {}
    /\ store' = Stored(EmptyStats)
    /\ issued' = <<>>
    /\ completed' = 0
    /\ UNCHANGED <<docVars, stEnabled, settingVars, booted, enabled, fragmentCounter,
                   loadPending, loadResult, passVars, scriptJobs, scheduled, counted,
                   discovered, phases, repeat, extensionVars>>

\* runtime.onMessage listener, {action: 'clearStats'} -> clearStats()
OnClearStats ==
    /\ booted
    /\ nEvents < MaxEvents
    /\ nEvents' = nEvents + 1
    /\ nClears' = nClears + 1
    /\ stats' = EmptyStats
    /\ fragmentCounter' = 0
    /\ processedElements' = {}
    /\ store' = Stored(EmptyStats)
    /\ issued' = <<>>
    /\ completed' = 0
    /\ UNCHANGED <<docVars, stEnabled, settingVars, booted, enabled, loadPending,
                   loadResult, passVars, scriptJobs, scheduled, counted, discovered,
                   phases, repeat>>

\* a clear request reaches the engine, the rest of the extension left aside
ClearStats ==
    /\ OnClearStats
    /\ UNCHANGED extensionVars

\* ------------------------------------------------------------ processESI
\* One synchronous stretch of a pass is one step.  The operators below run the
\* loops of processESI over a frame (the locals of the invocation and the
\* shared processedElements) until a fetch goes out or the pass is over; the
\* tree does not change during a stretch.

\* variant: the call does not look at the anchor's parent
FetchAndReplaceESI_Unguarded(k, f, element, url, originalComment, isTryBlock) ==
    [f EXCEPT !.pc = "fetch",
              !.call = [element |-> element, url |-> url,
                        originalComment |-> originalComment,
                        isTryBlock |-> isTryBlock, fragmentId |-> 0,
                        loop |-> f.pc, options |-> FetchOptions]]

\* fetchAndReplaceESI up to `await fetch(...)`: an anchor without a parent makes
\* the call return at once; otherwise the call waits for its fetch.  The
\* counters move in the action that takes the step.
FetchAndReplaceESI(k, f, element, url, originalComment, isTryBlock) ==
    IF ParentNode(k, element) = Null
    THEN f
    ELSE [f EXCEPT !.pc = "fetch",
                   !.call = [element |-> element, url |-> url,
                             originalComment |-> originalComment,
                             isTryBlock |-> isTryBlock, fragmentId |-> 0,
                             loop |-> f.pc, options |-> FetchOptions]]

\* the source the try loop will fetch for a try container
TryBlockSrc(k, a, tryBlock) ==
    LET includeTag == QuerySelector(k, a, tryBlock, IncludeTags)
    IN IF includeTag = Null THEN NoSrc ELSE a[includeTag].src

\* processStandaloneESITags: the four selectors, each filtered as it is read
StandaloneSelectors == <<"esi:include", "esi-include", "esi:include", "esi-include">>

StandaloneIncludes(k, a, processed) ==
    LET pick(i) == SelectSeq(QuerySelectorAll(k, a, {StandaloneSelectors[i]}),
                     LAMBDA tag : /\ tag \notin processed
                                  /\ ~IsInsideESITryBlock(k, a, tag))
    IN pick(1) \o pick(2) \o pick(3) \o pick(4)

\* comment.match(/<esi:include[^>]+src=["']([^"']+)["'][^>]*>/)
TrySrcMatch(a) == IF INC \in a.marks THEN a.src ELSE NoSrc
\* comment.match(/src=["']([^"']+)["']/)
SrcMatch(a) == a.src
\* the source processESIComment will fetch for a comment
CommentSrc(a) == IF TRYOPEN \in a.marks THEN TrySrcMatch(a) ELSE SrcMatch(a)

\* processESIComments: the TreeWalker pass collecting esiComments
EsiComments(k, a, processed) ==
    SelectSeq(WalkComments(k, a),
              LAMBDA n : /\ n \notin processed
                         /\ (INC \in a[n].marks \/ TRYOPEN \in a[n].marks))

\* processESITryBlocks: the querySelectorAll snapshot, at the start of a pass
TryFrame(k, a) ==
    LET tryBlocks == QuerySelectorAll(k, a, {"esi:try"})
    IN [pc |-> "try_loop", snap |-> tryBlocks, idx |-> 1, processed |-> {},
        call |-> NoCall,
        discovered |-> {t \in Range(tryBlocks) : TryBlockSrc(k, a, t) # NoSrc},
        phases |-> <<1>>]

\* processStandaloneESITags up to its for loop
StandaloneFrame(k, a, f) ==
    LET tags == StandaloneIncludes(k, a, f.processed)
    IN [f EXCEPT !.pc = "std_loop", !.snap = tags, !.idx = 1,
                 !.discovered = @ \cup {t \in Range(tags) : a[t].src # NoSrc},
                 !.phases = Append(@, 2)]

\* processESIComments up to its for loop
CommentFrame(k, a, f) ==
    LET comments == EsiComments(k, a, f.processed)
    IN [f EXCEPT !.pc = "cmt_loop", !.snap = comments, !.idx = 1,
                 !.discovered = @ \cup {c \in Range(comments) : CommentSrc(a[c]) # NoSrc},
                 !.phases = Append(@, 3)]

RECURSIVE ProcessESIComments(_, _, _)
\* processESIComments: the for loop from entry f.idx on, with processESIComment
ProcessESIComments(k, a, f) ==
    IF f.idx > Len(f.snap) THEN [f EXCEPT !.pc = "done"]
    ELSE LET commentNode == f.snap[f.idx]
             c == a[commentNode]
             marked == [f EXCEPT !.processed = @ \cup {commentNode}]
             r == IF TRYOPEN \in c.marks
                  THEN FetchAndReplaceESI(k, marked, commentNode, TrySrcMatch(c), c.marks, TRUE)
                  ELSE FetchAndReplaceESI(k, marked, commentNode, SrcMatch(c), {}, FALSE)
         IN IF commentNode \in f.processed
            THEN ProcessESIComments(k, a, [f EXCEPT !.idx = @ + 1])
            ELSE IF CommentSrc(c) # NoSrc /\ r.pc = "fetch"
                 THEN r
                 ELSE ProcessESIComments(k, a, [marked EXCEPT !.idx = @ + 1])

RECURSIVE ProcessStandaloneESITags(_, _, _)
\* processStandaloneESITags: the for loop from entry f.idx on; then phase 3
ProcessStandaloneESITags(k, a, f) ==
    IF f.idx > Len(f.snap) THEN ProcessESIComments(k, a, CommentFrame(k, a, f))
    ELSE LET tag == f.snap[f.idx]
             marked == [f EXCEPT !.processed = @ \cup {tag}]
             r == FetchAndReplaceESI(k, marked, tag, a[tag].src, {}, FALSE)
         IN IF tag \in f.processed \/ a[tag].src = NoSrc
            THEN ProcessStandaloneESITags(k, a, [f EXCEPT !.idx = @ + 1])
            ELSE IF r.pc = "fetch"
                 THEN r
                 ELSE ProcessStandaloneESITags(k, a, [marked EXCEPT !.idx = @ + 1])

RECURSIVE ProcessESITryBlocks(_, _, _)
\* processESITryBlocks: the for loop from entry f.idx on; then phase 2
ProcessESITryBlocks(k, a, f) ==
    IF f.idx > Len(f.snap) THEN ProcessStandaloneESITags(k, a, StandaloneFrame(k, a, f))
    ELSE LET tryBlock == f.snap[f.idx]
             includeTag == QuerySelector(k, a, tryBlock, IncludeTags)
             marked == [f EXCEPT !.processed = @ \cup {tryBlock, includeTag}]
             r == FetchAndReplaceESI(k, marked, tryBlock, a[includeTag].src, {}, TRUE)
         IN IF \/ tryBlock \in f.processed
               \/ TryBlockSrc(k, a, tryBlock) = NoSrc
            THEN ProcessESITryBlocks(k, a, [f EXCEPT !.idx = @ + 1])
            ELSE IF r.pc = "fetch"
                 THEN r
                 ELSE ProcessESITryBlocks(k, a, [marked EXCEPT !.idx = @ + 1])

\* variant: after the last try block the comments are scanned before the
\* standalone includes
ResumeLoop_CommentsFirst(k, a, p) ==
    LET f == [pc |-> call[p].loop, snap |-> snap[p], idx |-> idx[p] + 1,
              processed |-> processedElements, call |-> NoCall,
              discovered |-> discovered[p], phases |-> phases[p]]
    IN IF f.pc = "try_loop"
       THEN IF f.idx > Len(f.snap)
            THEN ProcessESIComments(k, a, CommentFrame(k, a, f))
            ELSE ProcessESITryBlocks(k, a, f)
       ELSE IF f.pc = "std_loop" THEN ProcessStandaloneESITags(k, a, f)
       ELSE ProcessESIComments(k, a, f)

\* the loop that awaited a call goes on with its next entry
ResumeLoop(k, a, p) ==
    LET f == [pc |-> call[p].loop, snap |-> snap[p], idx |-> idx[p] + 1,
              processed |-> processedElements, call |-> NoCall,
              discovered |-> discovered[p], phases |-> phases[p]]
    IN IF f.pc = "try_loop" THEN ProcessESITryBlocks(k, a, f)
       ELSE IF f.pc = "std_loop" THEN ProcessStandaloneESITags(k, a, f)
       ELSE ProcessESIComments(k, a, f)

\* The end of a stretch of invocation p that leaves it in frame r, the
\* statistics being s and the stored entry st before the stretch's last act.
\* Either a call has passed its guard (total++, fragmentCounter++, the request
\* goes out) or processESI is over (saveStats).
Suspend(p, r, s, st) ==
    /\ pc' = [pc EXCEPT ![p] = r.pc]
    /\ snap' = [snap EXCEPT ![p] = r.snap]
    /\ idx' = [idx EXCEPT ![p] = r.idx]
    /\ processedElements' = r.processed
    /\ discovered' = [discovered EXCEPT ![p] = r.discovered]
    /\ phases' = [phases EXCEPT ![p] = r.phases]
    /\ IF r.pc = "fetch"
       THEN /\ stats' = [s EXCEPT !.total = s.total + 1]
            /\ fragmentCounter' = fragmentCounter + 1
            /\ call' = [call EXCEPT ![p] =
                          [r.call EXCEPT !.fragmentId = fragmentCounter + 1]]
            /\ issued' = Append(issued, r.call.element)
            /\ counted' = [counted EXCEPT ![p] = Append(counted[p], r.call.element)]
            /\ store' = st
            /\ UNCHANGED completed
       ELSE /\ stats' = s
            /\ store' = Stored(s)
            /\ call' = [call EXCEPT ![p] = NoCall]
            /\ completed' = completed + 1
            /\ UNCHANGED <<fragmentCounter, issued, counted>>

NoPassInFlight == \A q \in Passes : pc[q] \in {"none", "timer", "done"}

\* variant: the pass runs whatever this.enabled says
ProcessESI_Unguarded(p) ==
    /\ pc[p] = "timer"
    /\ \A q \in Passes : q < p => pc[q] # "timer"
    /\ Suspend(p, ProcessESITryBlocks(kids, attrs, TryFrame(kids, attrs)), stats, store)
    /\ repeat' = [repeat EXCEPT ![p] = completed > 0 /\ NoPassInFlight]
    /\ UNCHANGED <<docVars, stEnabled, settingVars, booted, enabled, loadPending,
                   loadResult, scriptJobs, scheduled, nEvents, nClears, extensionVars>>

\* The timer fires (timers fire in the order they were set).  A disabled
\* engine returns at once; otherwise processedElements is cleared and the
\* phases run up to the first fetch.
ProcessESI(p) ==
    /\ pc[p] = "timer"
    /\ \A q \in Passes : q < p => pc[q] # "timer"
    /\ IF ~Truthy(enabled)
       THEN /\ pc' = [pc EXCEPT ![p] = "done"]
            /\ UNCHANGED <<stats, fragmentCounter, processedElements, store, snap, idx,
                           call, histVars>>
       ELSE /\ Suspend(p, ProcessESITryBlocks(kids, attrs, TryFrame(kids, attrs)),
                       stats, store)
            /\ repeat' = [repeat EXCEPT ![p] = completed > 0 /\ NoPassInFlight]
    /\ UNCHANGED <<docVars, stEnabled, settingVars, booted, enabled, loadPending,
                   loadResult, scriptJobs, scheduled, nEvents, nClears, extensionVars>>

\* ------------------------------------------------- fetchAndReplaceESI, settled
\* variant: the outcome is recorded but saveStats is not called
SuccessPath_NoSave(p, content) ==
    LET c == call[p]
        processed == ExtractAndExecuteScripts(content)
        r == Replaced(c, Container(c, processed.content))
        s2 == [stats EXCEPT !.successful = stats.successful + 1,
                            !.fragments = Append(stats.fragments,
                                Fragment(c.fragmentId, c.url, TRUE, NoError))]
    IN /\ kids' = r.kids
       /\ attrs' = r.attrs
       /\ scriptJobs' = IF processed.deferred
                        THEN Append(scriptJobs, ScriptJob(c.fragmentId, processed.scripts))
                        ELSE scriptJobs
       /\ Suspend(p, ResumeLoop(r.kids, r.attrs, p), s2, store)

\* the try branch once the body has arrived: container, replaceESIElement,
\* successful++, the Fragment, saveStats; then the awaiting loop goes on
SuccessPath(p, content) ==
    LET c == call[p]
        processed == ExtractAndExecuteScripts(content)
        r == Replaced(c, Container(c, processed.content))
        s2 == [stats EXCEPT !.successful = stats.successful + 1,
                            !.fragments = Append(stats.fragments,
                                Fragment(c.fragmentId, c.url, TRUE, NoError))]
    IN /\ kids' = r.kids
       /\ attrs' = r.attrs
       /\ scriptJobs' = IF processed.deferred
                        THEN Append(scriptJobs, ScriptJob(c.fragmentId, processed.scripts))
                        ELSE scriptJobs
       /\ Suspend(p, ResumeLoop(r.kids, r.attrs, p), s2, Stored(s2))

\* variant: the error is recorded and thrown again, which ends the pass
CatchPath_Rethrow(p, message) ==
    LET c == call[p]
        s2 == [stats EXCEPT !.failed = stats.failed + 1,
                            !.fragments = Append(stats.fragments,
                                Fragment(c.fragmentId, c.url, FALSE, message))]
    IN /\ UNCHANGED <<kids, attrs, idx, snap, processedElements, fragmentCounter,
                      scriptJobs, issued, counted, discovered, phases, completed>>
       /\ stats' = s2
       /\ store' = Stored(s2)
       /\ pc' = [pc EXCEPT ![p] = "done"]
       /\ call' = [call EXCEPT ![p] = NoCall]

\* the catch branch: error panel, replaceESIElement if the anchor has a parent,
\* failed++, the Fragment, saveStats; then the awaiting loop goes on
CatchPath(p, message) ==
    LET c == call[p]
        r == IF ParentNode(kids, c.element) # Null
             THEN Replaced(c, ErrorPanel(c, message))
             ELSE [kids |-> kids, attrs |-> attrs]
        s2 == [stats EXCEPT !.failed = stats.failed + 1,
                            !.fragments = Append(stats.fragments,
                                Fragment(c.fragmentId, c.url, FALSE, message))]
    IN /\ kids' = r.kids
       /\ attrs' = r.attrs
       /\ UNCHANGED scriptJobs
       /\ Suspend(p, ResumeLoop(r.kids, r.attrs, p), s2, Stored(s2))

SettleFrame ==
    UNCHANGED <<stEnabled, settingVars, booted, enabled, loadPending, loadResult,
                scheduled, nEvents, nClears, repeat, extensionVars>>

\* variant: a response that arrives while the engine is disabled is dropped
FetchResolved_Cancellable(p, content) ==
    /\ pc[p] = "fetch"
    /\ IF Truthy(enabled)
       THEN SuccessPath(p, content)
       ELSE /\ pc' = [pc EXCEPT ![p] = "done"]
            /\ call' = [call EXCEPT ![p] = NoCall]
            /\ UNCHANGED <<kids, attrs, stats, store, fragmentCounter, processedElements,
                           snap, idx, scriptJobs, issued, counted, discovered, phases,
                           completed>>
    /\ SettleFrame

\* fetch resolves with a 2xx response and response.text() with the markup.
\* (Between the two awaits the call changes nothing, so the two are one step.)
FetchResolved(p, content) ==
    /\ pc[p] = "fetch"
    /\ SuccessPath(p, content)
    /\ SettleFrame

\* fetch resolves with a non-2xx response: throw new Error(`HTTP ...`)
FetchHttpError(p, status) ==
    /\ pc[p] = "fetch"
    /\ CatchPath(p, HttpMessage(status, StatusText(status)))
    /\ SettleFrame

\* fetch rejects, or response.text() does (transport failure)
FetchRejected(p) ==
    /\ pc[p] = "fetch"
    /\ CatchPath(p, NetworkMessage)
    /\ SettleFrame

\* ------------------------------------------------------- deferred scripts
nonScriptVars == <<docVars, stEnabled, settingVars, store, booted, engineVars,
                   loadPending, loadResult, passVars, scheduled, nEvents, nClears,
                   histVars, extensionVars>>

\* the 10 ms timer of extractAndExecuteScripts fires: the loop starts
ScriptTimer(j) ==
    /\ j \in DOMAIN scriptJobs
    /\ scriptJobs[j].state = "timer"
    /\ \A i \in 1..(j - 1) : scriptJobs[i].state # "timer"
    /\ scriptJobs' = [scriptJobs EXCEPT ![j] = RunScripts(@)]
    /\ UNCHANGED nonScriptVars

\* onload of the external script the loop waits for: resolve(), the loop goes on
ScriptLoaded(j) ==
    /\ j \in DOMAIN scriptJobs
    /\ scriptJobs[j].state = "loading"
    /\ scriptJobs' = [scriptJobs EXCEPT ![j] = RunScripts([@ EXCEPT !.next = @ + 1])]
    /\ UNCHANGED nonScriptVars

\* onerror of that script: reject().  executeScript returns the promise from
\* inside its try block without awaiting it, so its catch does not see the
\* rejection; the await in the loop throws and the timer callback ends.
ScriptFailed(j) ==
    /\ j \in DOMAIN scriptJobs
    /\ scriptJobs[j].state = "loading"
    /\ scriptJobs' = [scriptJobs EXCEPT ![j].state = "aborted"]
    /\ UNCHANGED nonScriptVars

\* -------------------------------------------------------------------- Next
Next ==
    \/ InitContinue
    \/ LoadStatsCallback
    \/ \E v \in {"true", "false"} : StorageChanged(EnabledChange(v))
    \/ ClearStats
    \/ \E p \in Passes : ProcessESI(p)
    \/ \E p \in Passes, content \in Bodies : FetchResolved(p, content)
    \/ \E p \in Passes, status \in BadStatuses : FetchHttpError(p, status)
    \/ \E p \in Passes : FetchRejected(p)

Spec == Init /\ [][Next]_vars

\* the fetch that invocation p awaits settles, with whatever outcome: the
\* call ends and the invocation issues its next fetch or finishes
SettleStep(p) == pc[p] = "fetch" /\ (pc'[p] # "fetch" \/ call'[p] # call[p])

\* The engine of a page without stored history, enabled from the start, where
\* every fetch that was issued settles in the end: an invocation does not
\* wait for a fetch forever (a settle step is enabled exactly while
\* pc[p] = "fetch", so this is weak fairness of the settle steps), and the
\* storage read of loadStats is answered.
InitFair ==
    /\ Boot(Docs, {Absent}, {"true"}, {AbsentSettings})
    /\ ExtensionIdle

Fairness ==
    /\ \A p \in Passes : []<>(pc[p] # "fetch") \/ []<><<SettleStep(p)>>_vars
    /\ WF_vars(LoadStatsCallback)

SpecFair == InitFair /\ [][Next]_vars /\ Fairness

\* ------------------------------------------------ the engine under settings
\* The same engine on a page with one directive, with every setting key in
\* play: the store starts empty, as installed or fully switched on, change
\* notifications arrive for every key, and fetched markup carries scripts.
SettingChanges ==
    {EnabledChange(v) : v \in {"true", "false", Undefined}}
      \cup {[NoChanges EXCEPT !.customHeaders = v] : v \in {HeadersA, Undefined}}
      \cup {[NoChanges EXCEPT !.forwardHeaders = v] : v \in {"true"}}
      \cup {[NoChanges EXCEPT !.forwardCookies = v] : v \in {"true", "false"}}
      \cup {[NoChanges EXCEPT !.executeScripts = v] : v \in {"true", Undefined}}

InitSettings ==
    /\ Boot({DocComments}, {Absent}, {Undefined, "true"},
            {AbsentSettings, InstalledSettings, CustomSettings})
    /\ ExtensionIdle

NextSettings ==
    \/ InitContinue
    \/ LoadStatsCallback
    \/ \E changes \in SettingChanges : StorageChanged(changes)
    \/ ClearStats
    \/ \E p \in Passes : ProcessESI(p)
    \/ \E p \in Passes, content \in ScriptBodies : FetchResolved(p, content)
    \/ \E p \in Passes, status \in BadStatuses : FetchHttpError(p, status)
    \/ \E p \in Passes : FetchRejected(p)
    \/ \E j \in 1..MaxPasses : ScriptTimer(j)
    \/ \E j \in 1..MaxPasses : ScriptLoaded(j)
    \/ \E j \in 1..MaxPasses : ScriptFailed(j)

SpecSettings == InitSettings /\ [][NextSettings]_vars

\* The engine on a page with two comment directives under every stored
\* combination of the request settings, with the header editor saving new
\* lists while the pass runs.
RequestSettings ==
    {[customHeaders |-> h, forwardHeaders |-> f, forwardCookies |-> c,
      executeScripts |-> Undefined] :
        h \in HeaderLists \cup {Undefined}, f \in {Undefined, "true", "false"},
        c \in {Undefined, "true", "false"}}

InitRequest ==
    /\ Boot({DocIncludes}, {Absent}, {"true"}, RequestSettings)
    /\ ExtensionIdle

NextRequest ==
    \/ InitContinue
    \/ LoadStatsCallback
    \/ \E h \in HeaderLists : StorageChanged([NoChanges EXCEPT !.customHeaders = h])
    \/ \E p \in Passes : ProcessESI(p)
    \/ \E p \in Passes, content \in Bodies : FetchResolved(p, content)
    \/ \E p \in Passes, status \in BadStatuses : FetchHttpError(p, status)

SpecRequest == InitRequest /\ [][NextRequest]_vars

\* The engine on pages whose try blocks are written as comments.
InitTryBlock ==
    /\ Boot(TryDocs, {Absent}, {"true"}, {AbsentSettings})
    /\ ExtensionIdle

SpecTryBlock == InitTryBlock /\ [][Next]_vars

\* ------------------------------------------- the engine in its extension
\* The background script and the popup around the engine of one page: the
\* popup toggles esiEnabled and clears the page's statistics, tabs finish
\* loading, the background script reads the store.
pageVars == <<docVars, settingVars, booted, engineVars, loadPending, loadResult,
              passVars, scriptJobs, scheduled, nEvents, nClears, histVars>>

\* tabs.onUpdated with status 'complete': cleanupOldStats() computes its
\* cutoff and issues its read of the whole store, updateIconForCurrentState()
\* issues its read of esiEnabled.  old: the latest timestamp of the page's
\* entry as stored now lies before the cutoff (more than an hour back).
TabComplete(r, old) ==
    /\ iconReads[r] = "none"
    /\ \A q \in TabLoads : q < r => iconReads[q] # "none"
    /\ old => store.present /\ store.value.fragments # <<>>
    /\ cleanups' = [cleanups EXCEPT ![r] = [state |-> "issued", seen |-> store,
                                            old |-> old, remove |-> FALSE,
                                            cutoffTime |-> now - Hour,
                                            allData |-> NoEntries]]
    /\ iconReads' = [iconReads EXCEPT ![r] = "issued"]
    /\ UNCHANGED <<pageVars, stEnabled, store, icon, bgInbox, popupPc, storageVars>>

\* the store answers the read of cleanupOldStats: the page's entry is to be
\* removed when it has fragments and its latest timestamp lies before the
\* cutoff (an entry written after the cutoff was taken is younger)
CleanupServed(r) ==
    /\ cleanups[r].state = "issued"
    /\ cleanups' = [cleanups EXCEPT ![r].state = "served",
                                    ![r].remove = /\ store.present
                                                  /\ store.value.fragments # <<>>
                                                  /\ store = cleanups[r].seen
                                                  /\ cleanups[r].old,
                                    ![r].allData = others]
    /\ UNCHANGED <<pageVars, stEnabled, store, icon, iconReads, bgInbox,
                   popupPc, now, others>>

\* cleanupOldStats goes on after its await: storage.local.remove(key)
CleanupCallback(r) ==
    /\ cleanups[r].state = "served"
    /\ cleanups' = [cleanups EXCEPT ![r].state = "done"]
    /\ store' = IF cleanups[r].remove THEN Absent ELSE store
    /\ others' = RemoveKeys(others, KeysToRemove(cleanups[r].allData,
                                                 cleanups[r].cutoffTime))
    /\ UNCHANGED <<pageVars, stEnabled, icon, iconReads, bgInbox, popupPc, now>>

\* the store answers the read of updateIconForCurrentState
IconReadServed(r) ==
    /\ iconReads[r] = "issued"
    /\ iconReads' = [iconReads EXCEPT ![r] = NotFalse(stEnabled)]
    /\ UNCHANGED <<pageVars, stEnabled, store, icon, cleanups, bgInbox,
                   popupPc, storageVars>>

\* updateIconForCurrentState goes on after its await: updateIcon(enabled)
IconReadCallback(r) ==
    /\ iconReads[r] \in {"true", "false"}
    /\ icon' = IconFor(iconReads[r])
    /\ iconReads' = [iconReads EXCEPT ![r] = "done"]
    /\ UNCHANGED <<pageVars, stEnabled, store, cleanups, bgInbox, popupPc, storageVars>>

\* storage.onChanged listener of the background script:
\* updateIcon(changes.esiEnabled.newValue)
BackgroundOnChanged ==
    /\ bgInbox # <<>>
    /\ Head(bgInbox).kind = "changed"
    /\ icon' = IconFor(Head(bgInbox).value)
    /\ bgInbox' = Tail(bgInbox)
    /\ UNCHANGED <<pageVars, stEnabled, store, iconReads, cleanups, popupPc, storageVars>>

\* runtime.onMessage listener of the background script, action 'updateIcon':
\* updateIcon(request.enabled)
BackgroundOnMessage ==
    /\ bgInbox # <<>>
    /\ Head(bgInbox).kind = "updateIcon"
    /\ icon' = IconFor(Head(bgInbox).value)
    /\ bgInbox' = Tail(bgInbox)
    /\ UNCHANGED <<pageVars, stEnabled, store, iconReads, cleanups, popupPc, storageVars>>

\* the main toggle of the popup: this.enabled = checked, saveSettings(),
\* updateIcon(this.enabled).  The popup shows what it loaded from the store,
\* so the toggle writes the opposite; the store takes the value, the engine's
\* listener runs, the updateIcon message and the notification for the
\* background script are under way (delivered in this order).
PopupToggle ==
    LET v == IF NotFalse(stEnabled) = "true" THEN "false" ELSE "true"
    IN /\ OnChanged(EnabledChange(v))
       /\ bgInbox' = bgInbox \o <<[kind |-> "updateIcon", value |-> v],
                                  [kind |-> "changed", value |-> v]>>
       /\ UNCHANGED <<icon, iconReads, cleanups, popupPc, storageVars>>

\* ESIPopup.clearStats up to its tabs.sendMessage: storage.local.remove(statsKey)
PopupRemoveStats ==
    /\ booted
    /\ popupPc = "idle"
    /\ popupPc' = "removed"
    /\ store' = Absent
    /\ UNCHANGED <<pageVars, stEnabled, icon, iconReads, cleanups, bgInbox, storageVars>>

\* ESIPopup.clearStats: tabs.sendMessage(tab.id, {action: 'clearStats'}) and
\* the engine's handler
PopupSendClear ==
    /\ popupPc = "removed"
    /\ popupPc' = "idle"
    /\ OnClearStats
    /\ UNCHANGED <<icon, iconReads, cleanups, bgInbox, storageVars>>

\* The page's statistics entry: the engine runs its pass on a page with one
\* directive and a history in the store, the popup clears the statistics and
\* the background script cleans up old entries.
InitStatsStore ==
    /\ Boot({DocComments}, {Stored(OldStats)}, {Undefined, "true"}, {AbsentSettings})
    /\ BackgroundStart

NextStatsStore ==
    \/ InitContinue
    \/ LoadStatsCallback
    \/ \E p \in Passes : ProcessESI(p)
    \/ \E p \in Passes, content \in Bodies : FetchResolved(p, content)
    \/ \E p \in Passes, status \in BadStatuses : FetchHttpError(p, status)
    \/ \E r \in TabLoads, old \in BOOLEAN : TabComplete(r, old)
    \/ \E r \in TabLoads : CleanupServed(r)
    \/ \E r \in TabLoads : CleanupCallback(r)
    \/ PopupRemoveStats
    \/ PopupSendClear

SpecStatsStore == InitStatsStore /\ [][NextStatsStore]_vars

\* time passes
Tick ==
    /\ now < MaxTime
    /\ now' = now + 1
    /\ UNCHANGED <<pageVars, stEnabled, store, icon, iconReads, cleanups, bgInbox,
                   popupPc, others>>

\* the engine of another page records a fragment and saves its statistics
\* (saveStats, with timestamp: Date.now())
OtherPageSaves(key) ==
    /\ key \in StatsKeys
    /\ LET fragments == IF key \in DOMAIN others THEN others[key].fragments ELSE <<>>
       IN /\ Len(fragments) < MaxFragments
          /\ others' = [k \in DOMAIN others \cup {key} |->
                           IF k = key THEN StatsEntry(Append(fragments, now))
                           ELSE others[k]]
    /\ UNCHANGED <<pageVars, stEnabled, store, icon, iconReads, cleanups, bgInbox,
                   popupPc, now>>

\* what the engines of the other pages may have left in storage.local
StoredHistories == {<<>>, <<0>>, <<1>>, <<0, 2>>, <<StartTime>>}
StoredEntries ==
    {data \in [StorageKeys -> {SettingEntry} \cup {StatsEntry(t) : t \in StoredHistories}] :
        /\ data["debugLogging"] = SettingEntry
        /\ \A key \in StatsKeys : data[key] # SettingEntry}

\* The clean-up of old statistics: storage.local holds the histories of
\* other pages, time passes, those pages record fragments, and a tab that
\* finishes loading makes the background script clean up.
InitCleanup ==
    /\ Boot({DocComments}, {Absent}, {"true"}, {AbsentSettings})
    /\ icon = "on"
    /\ iconReads = [r \in Reads |-> IF r = 0 THEN "done" ELSE "none"]
    /\ cleanups = [r \in TabLoads |-> NoCleanup]
    /\ bgInbox = <<>>
    /\ popupPc = "idle"
    /\ now = StartTime
    /\ \E data \in StoredEntries, gone \in SUBSET StatsKeys : others = RemoveKeys(data, gone)

NextCleanup ==
    \/ Tick
    \/ \E key \in StatsKeys : OtherPageSaves(key)
    \/ \E r \in TabLoads : TabComplete(r, FALSE)
    \/ \E r \in TabLoads : CleanupServed(r)
    \/ \E r \in TabLoads : CleanupCallback(r)

SpecCleanup == InitCleanup /\ [][NextCleanup]_vars

\* The icon: the popup toggles esiEnabled, tabs finish loading, and the
\* background script sets the icon from its reads, the change notifications
\* and the popup's messages.  The engine takes part with its listener; its
\* passes touch neither the setting nor the icon and are left out.
InitIcon ==
    /\ Boot({DocComments}, {Absent}, {Undefined, "true", "false"}, {AbsentSettings})
    /\ BackgroundStart

NextIcon ==
    \/ InitContinue
    \/ PopupToggle
    \/ \E r \in TabLoads, old \in BOOLEAN : TabComplete(r, old)
    \/ \E r \in TabLoads : CleanupServed(r)
    \/ \E r \in TabLoads : CleanupCallback(r)
    \/ \E r \in Reads : IconReadServed(r)
    \/ \E r \in Reads : IconReadCallback(r)
    \/ BackgroundOnChanged
    \/ BackgroundOnMessage

SpecIcon == InitIcon /\ [][NextIcon]_vars

\* ------------------------------------------------------------------- types
TypeOK ==
    /\ scheduled \in 0..MaxPasses
    /\ \A p \in Passes : pc[p] \in {"none", "timer", "fetch", "done"}
    /\ \A p \in Passes : pc[p] = "fetch" <=> call[p] # NoCall
    /\ stats.total >= 0 /\ stats.successful >= 0 /\ stats.failed >= 0
    /\ DOMAIN kids = DOMAIN attrs

\* ================================================================== claims
FetchInFlight(p) == pc[p] = "fetch"
NoFetchInFlight == \A p \in Passes : ~FetchInFlight(p)

\* C1: whenever no fetchAndReplaceESI call is in flight, total equals
\* successful + failed, for every interleaving of passes, fetch outcomes,
\* clearStats requests and the stats restore.
C1_TotalIsSum ==
    NoFetchInFlight => stats.total = stats.successful + stats.failed

\* C2: within a page generation no directive anchor has its fetch issued
\* twice, also when a second pass starts while the first has the fetch for
\* that anchor in flight.
C2_AtMostOneFetchPerAnchor ==
    \A i, j \in DOMAIN issued : i # j => issued[i] # issued[j]

\* a step taken by invocation p: its timer is set or fires, or its fetch
\* settles
StepOf(p) == pc'[p] # pc[p] \/ call'[p] # call[p]

\* C3: a pass started after a full pass has finished, with no pass in flight
\* and no clearStats since, records nothing: none of its steps changes
\* stats (fragments, total, successful, failed) or the id counter, and it
\* issues no fetch.
C3_RepeatPassRecordsNothing ==
    [][\A p \in Passes :
          (repeat'[p] /\ StepOf(p)) =>
              /\ stats' = stats
              /\ fragmentCounter' = fragmentCounter
              /\ pc'[p] # "fetch"]_vars

\* a second pass has run to its end over a document the first pass resolved
C3_Witness ==
    \E p \in Passes : repeat[p] /\ pc[p] = "done" /\ Len(stats.fragments) > 0

\* node new stands in the tree k2 where node old stood in the tree k1
TakesPlaceOf(k1, k2, new, old) ==
    LET par == ParentNode(k1, old)
    IN /\ par # Null
       /\ new \notin DOMAIN k1
       /\ ParentNode(k2, new) = par
       /\ ParentNode(k2, old) = Null
       /\ Len(k2[par]) = Len(k1[par])
       /\ \A i \in DOMAIN k1[par] :
             k2[par][i] = IF k1[par][i] = old THEN new ELSE k1[par][i]

\* the fetch of invocation p settles with a 2xx response and its body
SuccessStep(p) ==
    /\ FetchInFlight(p)
    /\ StepOf(p)
    /\ stats'.successful = stats.successful + 1

\* C4: when the 2xx response of a simple include (tag or comment form) whose
\* anchor is attached has arrived, exactly one Fragment with success = TRUE
\* and the call's id is appended, successful grows by one, failed does not
\* move (total moves only if the loop goes on to issue its next fetch), and
\* the anchor's place in the document is taken by a container carrying that
\* id and the fetched markup.
C4_SuccessRecordedAndReplaced ==
    [][\A p \in Passes :
          (/\ SuccessStep(p)
           /\ ~call[p].isTryBlock
           /\ Attached(kids, call[p].element)) =>
              /\ Len(stats'.fragments) = Len(stats.fragments) + 1
              /\ SubSeq(stats'.fragments, 1, Len(stats.fragments)) = stats.fragments
              /\ LET f == stats'.fragments[Len(stats'.fragments)]
                 IN f.success /\ f.id = call[p].fragmentId /\ f.url = call[p].url
              /\ stats'.successful = stats.successful + 1
              /\ stats'.failed = stats.failed
              /\ stats'.total = stats.total + (IF pc'[p] = "fetch" THEN 1 ELSE 0)
              /\ \E n \in DOMAIN kids' :
                    /\ TakesPlaceOf(kids, kids', n, call[p].element)
                    /\ Attached(kids', n)
                    /\ attrs'[n].role = "container"
                    /\ attrs'[n].fid = call[p].fragmentId
                    /\ \E content \in Bodies : attrs'[n].body = <<content>>]_vars

\* a tag-form include and a comment-form include have both been replaced by
\* containers that are in the document
C4_Witness ==
    /\ \E e \in Range(issued) : IsIncludeTag(attrs[e]) /\ ~Attached(kids, e)
    /\ \E e \in Range(issued) : attrs[e].type = "comment" /\ ~Attached(kids, e)
    /\ Cardinality({n \in DOMAIN attrs : attrs[n].role = "container" /\ Attached(kids, n)}) = 2
    /\ stats.successful = 2

\* the fetch of invocation p settles as a failure (non-2xx or transport error)
FailureStep(p) ==
    /\ FetchInFlight(p)
    /\ StepOf(p)
    /\ stats'.failed = stats.failed + 1

\* C7: a failed fetch (non-2xx or transport error) does not abort the pass nor
\* touch another invocation: the loop that awaited it goes on from the next
\* entry of its snapshot (a later entry of the same snapshot is fetched, or
\* the remaining phases run), the tree is cut exactly as a success would
\* have cut it, and every pass that ran ends having run its three phases in
\* order.
C7_FailureIsolated ==
    [][/\ \A p \in Passes :
             FailureStep(p) =>
                /\ LET r == ResumeLoop(kids', attrs', p)
                   IN /\ pc'[p] = r.pc /\ snap'[p] = r.snap /\ idx'[p] = r.idx
                      /\ r.pc = "fetch" => call'[p].element = r.call.element
                /\ (pc'[p] = "fetch" /\ call'[p].loop = call[p].loop) =>
                      (snap'[p] = snap[p] /\ idx'[p] > idx[p])
                /\ \A q \in Passes \ {p} :
                      pc'[q] = pc[q] /\ call'[q] = call[q] /\ snap'[q] = snap[q]
                /\ kids' = ReplaceESIElement(kids, attrs, call[p].element, NewNode,
                                             call[p].originalComment, call[p].isTryBlock)
       /\ \A p \in Passes :
             (pc'[p] = "done" /\ phases'[p] # <<>>) => phases'[p] = <<1, 2, 3>>]_vars

\* a pass is over in which a directive failed and a later one was fetched,
\* replaced and recorded as a success
C7_Witness ==
    /\ \E p \in Passes : pc[p] = "done" /\ phases[p] = <<1, 2, 3>> /\ Len(counted[p]) = 2
    /\ Len(stats.fragments) = 2
    /\ ~stats.fragments[1].success
    /\ stats.fragments[2].success
    /\ \E n \in DOMAIN attrs :
          attrs[n].role = "container" /\ attrs[n].fid = stats.fragments[2].id /\ Attached(kids, n)

\* the anchor of call c has been taken out of its parent and a new node with
\* the attributes rec is a child somewhere in the tree
AnchorReplacedBy(c, role, message) ==
    /\ ParentNode(kids', c.element) = Null
    /\ \E n \in DOMAIN kids' \ DOMAIN kids :
          /\ ParentNode(kids', n) # Null
          /\ attrs'[n].role = role
          /\ attrs'[n].fid = c.fragmentId
          /\ attrs'[n].url = c.url
          /\ attrs'[n].body = message

\* C5: when the fetch of a directive yields a non-2xx status, exactly one
\* Fragment with success = FALSE and error 'HTTP <status>: <statusText>' is
\* recorded, failed grows by one, successful does not move, and the anchor is
\* replaced by an error panel carrying the id, the source URL and the message.
C5_HttpErrorRecordedAndReplaced ==
    [][\A p \in Passes, status \in BadStatuses :
          FetchHttpError(p, status) =>
              /\ Len(stats'.fragments) = Len(stats.fragments) + 1
              /\ LET f == stats'.fragments[Len(stats'.fragments)]
                 IN /\ ~f.success
                    /\ f.id = call[p].fragmentId
                    /\ f.error = <<"HTTP ", status, ": ", StatusText(status)>>
              /\ stats'.failed = stats.failed + 1
              /\ stats'.successful = stats.successful
              /\ AnchorReplacedBy(call[p], "esi-error",
                                  <<"HTTP ", status, ": ", StatusText(status)>>)]_vars

\* C6: when the fetch for a tag-form try block fails, exactly one Fragment
\* (success = FALSE, url = the src of the nested include) is recorded and the
\* error panel takes the place of the whole try container, the nested include
\* leaving the document with it; no call is ever anchored at an include that
\* lies inside a try container.
C6_TryFailureReplacesContainer ==
    [][/\ \A p \in Passes :
             (/\ FailureStep(p)
              /\ call[p].isTryBlock
              /\ attrs[call[p].element].type = "element") =>
                 LET t == call[p].element
                     inc == QuerySelector(kids, attrs, t, IncludeTags)
                 IN /\ Len(stats'.fragments) = Len(stats.fragments) + 1
                    /\ LET f == stats'.fragments[Len(stats'.fragments)]
                       IN ~f.success /\ f.url = attrs[inc].src
                    /\ \E n \in DOMAIN kids' :
                          /\ TakesPlaceOf(kids, kids', n, t)
                          /\ attrs'[n].role = "esi-error"
                          /\ attrs'[n].fid = call[p].fragmentId
                    /\ inc \in Descendants(kids', t)
                    /\ ~Attached(kids', inc)
       /\ \A p \in Passes :
             FetchInFlight(p)' =>
                ~(/\ IsIncludeTag(attrs'[call'[p].element])
                  /\ IsInsideESITryBlock(kids', attrs', call'[p].element))]_vars

Count(s, x) == Cardinality({i \in DOMAIN s : s[i] = x})

\* C8: every directive a phase discovered (an anchor with a non-empty source
\* placed in the phase's snapshot) increments total exactly once: never twice,
\* and once the pass is over never zero times.
C8_DiscoveredCountedOnce ==
    \A p \in Passes :
       /\ \A e \in Range(counted[p]) : Count(counted[p], e) = 1
       /\ pc[p] = "done" => \A e \in discovered[p] : Count(counted[p], e) = 1

\* C9: no node is claimed by two Directives of a pass: no call is anchored at
\* an include inside a try container, no anchor is claimed twice, no anchor
\* lies inside the subtree of another anchor of the pass, and two try blocks
\* of a pass never fetch for the same nested include.
C9_NoNodeClaimedTwice ==
    \A p \in Passes :
       /\ \A e \in Range(counted[p]) :
             ~(IsIncludeTag(attrs[e]) /\ IsInsideESITryBlock(kids, attrs, e))
       /\ \A i, j \in DOMAIN counted[p] :
             i < j => /\ counted[p][i] # counted[p][j]
                      /\ counted[p][j] \notin Descendants(kids, counted[p][i])

\* C10: the tree changes only in the step in which a directive's own fetch
\* settles, and only if that directive's anchor is then still attached to the
\* document (neither it nor one of its ancestors has been removed).
C10_ReplaceOnlyAfterSettleAndAttached ==
    [][kids' # kids =>
          \E p \in Passes :
             /\ FetchInFlight(p)
             /\ StepOf(p)
             /\ Attached(kids, call[p].element)]_vars

\* no two Fragments of the history share an id
DistinctIds(fragments) ==
    \A i, j \in DOMAIN fragments : i # j => fragments[i].id # fragments[j].id

\* invocation p passes the guard of fetchAndReplaceESI and takes an id
IssueStep(p) == pc'[p] = "fetch" /\ call'[p] # call[p]

\* the id the first call after engine start is to take: the maximum id of the
\* history read from the store, plus one
FirstIdAfterStart ==
    1 + (IF loadResult.present
         THEN SeqMax([i \in DOMAIN loadResult.value.fragments |->
                        loadResult.value.fragments[i].id])
         ELSE 0)

\* C11: as long as no clearStats has been handled, no two Fragments in
\* stats.fragments share an id, and the first id assigned after engine start
\* is (maximum id of the restored history) + 1, or 1 when the store held no
\* history.
C11_IdsPageScoped ==
    [][/\ nClears' = 0 => DistinctIds(stats'.fragments)
       /\ \A p \in Passes :
             (/\ IssueStep(p)
              /\ nClears = 0
              /\ \A q \in Passes : counted[q] = <<>>) =>
                 call'[p].fragmentId = FirstIdAfterStart]_vars

\* C12: once a clearStats has been handled, whenever it was delivered, the
\* next pass to fetch takes id 1 for its first directive as on a fresh
\* engine, and the history holds every id exactly once.  (Stated for a page
\* whose store held no history, so that the restore of engine start plays no
\* part.)
C12_ResetRestartsIds ==
    [][~loadResult.present =>
          /\ \A p \in Passes :
                (pc[p] = "timer" /\ IssueStep(p) /\ nClears > 0 /\ issued = <<>>) =>
                    call'[p].fragmentId = 1
          /\ nClears' > 0 => DistinctIds(stats'.fragments)]_vars

\* C13: in the step that handles a clear request, total = successful =
\* failed = 0, the history is empty, the id counter is 0, processedElements
\* is empty, and the empty stats are written to the store under the page key.
C13_ClearEmptiesEverything ==
    [][nClears' # nClears =>
          /\ stats' = EmptyStats
          /\ fragmentCounter' = 0
          /\ processedElements' = {}
          /\ store' = Stored(EmptyStats)]_vars

\* a clear request has emptied the statistics of a page on which a fragment
\* had been fetched, recorded and inserted
C13_Witness ==
    /\ nClears > 0
    /\ stats = EmptyStats
    /\ fragmentCounter = 0
    /\ store = Stored(EmptyStats)
    /\ NoFetchInFlight
    /\ \E n \in DOMAIN attrs : attrs[n].role = "container" /\ Attached(kids, n)

\* C14: when the outcome of a fetch has been recorded, the entry stored under
\* the page key equals the in-memory stats as they stood at that saveStats
\* (total grows afterwards only if the loop issues its next fetch in the same
\* task); after a clearStats the stored entry equals the in-memory stats.
C14_StoreFollowsStats ==
    [][/\ \A p \in Passes :
             (FetchInFlight(p) /\ StepOf(p)) =>
                 /\ store'.present
                 /\ store'.value =
                      [stats' EXCEPT !.total = @ - (IF pc'[p] = "fetch" THEN 1 ELSE 0)]
       /\ nClears' # nClears => store' = Stored(stats')]_vars

\* two outcomes have been recorded, a success first, and the stored entry is
\* the in-memory stats
C14_Witness ==
    /\ NoFetchInFlight
    /\ Len(stats.fragments) = 2
    /\ stats.fragments[1].success
    /\ store = Stored(stats)

\* the settings the latest notifications (or, before any, the load at engine
\* start) delivered, as the engine is to hold them
LatestSettings ==
    [customHeaders |-> OrEmptyList(stSettings.customHeaders),
     forwardHeaders |-> OrFalse(stSettings.forwardHeaders),
     forwardCookies |-> OrFalse(stSettings.forwardCookies),
     executeScripts |-> OrFalse(stSettings.executeScripts)]

HeldSettings ==
    [customHeaders |-> customHeaders, forwardHeaders |-> forwardHeaders,
     forwardCookies |-> forwardCookies, executeScripts |-> executeScripts]

\* C15: once the engine has loaded its settings, the settings it holds equal
\* the latest values delivered for customHeaders, forwardHeaders,
\* forwardCookies and executeScripts (and for enabled, when a value was
\* delivered), and every fetch is issued with the headers and the credentials
\* mode those latest values give.
C15_SettingsKeptCurrent ==
    [][/\ booted' => /\ HeldSettings' = LatestSettings'
                     /\ stEnabled' # Undefined => enabled' = stEnabled'
       /\ \A p \in Passes :
             IssueStep(p) =>
                call'[p].options = RequestOptions(LatestSettings.customHeaders,
                                                  LatestSettings.forwardHeaders,
                                                  LatestSettings.forwardCookies)]_vars

\* C16: once the engine has loaded its settings, whenever the enabled key is
\* absent from the store (at load, or removed by a change whose newValue is
\* undefined) the enabled flag is true; absent customHeaders and
\* executeScripts are held as the empty list and false.
C16_AbsentMeansDefault ==
    booted =>
       /\ stEnabled = Undefined => enabled = "true"
       /\ stSettings.customHeaders = Undefined => customHeaders = EmptyList
       /\ stSettings.executeScripts = Undefined => executeScripts = "false"

\* the timer of invocation p fires
StartStep(p) == pc[p] = "timer" /\ pc'[p] # "timer"

\* C17: when the timer of a pass fires while the engine is disabled, also
\* when the timer was set before the disabling change arrived, processESI
\* returns at once: no scan, no fetch, and the document, processedElements,
\* the id counter, stats and the store are left alone.
C17_DisabledPassDoesNothing ==
    [][\A p \in Passes :
          (StartStep(p) /\ ~Truthy(enabled)) =>
              /\ pc'[p] = "done"
              /\ phases'[p] = <<>>
              /\ UNCHANGED <<kids, attrs, processedElements, fragmentCounter, stats,
                             store, snap, idx, call, issued, counted, discovered>>]_vars

\* the timer of a pass has fired on a disabled engine and the page still
\* holds its directives
C17_Witness ==
    /\ ~Truthy(enabled)
    /\ \E p \in Passes : pc[p] = "done" /\ phases[p] = <<>>
    /\ stats = EmptyStats
    /\ \E n \in DOMAIN attrs :
          Attached(kids, n) /\ n # Root /\ attrs[n].role = "page" /\ attrs[n].src # NoSrc

\* C18: a fetch that settles while the engine is disabled is handled as on an
\* enabled engine: one Fragment with the call's id and url is recorded, and
\* the anchor is replaced by the container (success) or the error panel
\* (failure) carrying that id.
C18_DisableDoesNotCancel ==
    [][\A p \in Passes :
          (FetchInFlight(p) /\ StepOf(p) /\ ~Truthy(enabled)) =>
              /\ Len(stats'.fragments) = Len(stats.fragments) + 1
              /\ LET f == stats'.fragments[Len(stats'.fragments)]
                 IN /\ f.id = call[p].fragmentId
                    /\ f.url = call[p].url
                    /\ ParentNode(kids, call[p].element) # Null =>
                          /\ attrs'[NewNode].fid = call[p].fragmentId
                          /\ attrs'[NewNode].role =
                                IF f.success THEN "container" ELSE "esi-error"
              /\ kids' = ReplaceESIElement(kids, attrs, call[p].element, NewNode,
                                           call[p].originalComment,
                                           call[p].isTryBlock)]_vars

\* the only pass ever scheduled has resolved both directives of its page and
\* the only event delivered was the change that disabled the engine, which
\* therefore arrived while a fetch of the pass was in flight
C18_Witness ==
    /\ enabled = "false"
    /\ scheduled = 1 /\ nEvents = 1 /\ nClears = 0
    /\ pc[1] = "done" /\ Len(counted[1]) = 2
    /\ Len(stats.fragments) = 2
    /\ \A i \in 1..2 : \E n \in DOMAIN attrs :
          attrs[n].fid = stats.fragments[i].id /\ Attached(kids, n)

\* the loop of deferred-script job j has come to its end
LoopOver(job) == job.state \in {"done", "aborted"}

\* C19: a failing script (an inline script that throws, an external script
\* that fails to load) does not keep the remaining scripts of its fragment
\* from running: when the loop is over every script of the list has been
\* executed; and no step of the loop changes the recorded statistics.
C19_ScriptFailuresSwallowed ==
    [][/\ \A j \in DOMAIN scriptJobs' :
             LoopOver(scriptJobs'[j]) =>
                scriptJobs'[j].ran = [i \in DOMAIN scriptJobs'[j].scripts |-> i]
       /\ (\E j \in DOMAIN scriptJobs : scriptJobs'[j] # scriptJobs[j]) =>
             stats' = stats]_vars

\* C20: when executeScripts is false as the body of a response arrives, no
\* script loop is scheduled and the container holds the fetched markup as it
\* came; executeScripts is false whenever the store has no true value for it
\* (key absent, or false as written at install).
C20_ScriptsAreOptIn ==
    [][/\ \A p \in Passes, content \in ScriptBodies :
             (FetchResolved(p, content) /\ ~Truthy(executeScripts)) =>
                 /\ scriptJobs' = scriptJobs
                 /\ ParentNode(kids, call[p].element) # Null =>
                       attrs'[NewNode].body = <<content>>
       /\ (booted' /\ stSettings'.executeScripts # "true") =>
             executeScripts' = "false"]_vars

\* markup with scripts has been inserted as it came, no loop was scheduled
C20_Witness ==
    /\ executeScripts = "false"
    /\ scriptJobs = <<>>
    /\ \E n \in DOMAIN attrs :
          /\ attrs[n].role = "container"
          /\ attrs[n].body = <<ScriptMarkup>>
          /\ Attached(kids, n)

\* a step of the page's engine that may call saveStats: a step of one of its
\* passes, or its clearStats handler
EngineStoreStep == nClears' # nClears \/ \E p \in Passes : StepOf(p)

\* C21: the stats entry stored under the page's key is written or removed
\* only by the engine of that page: once the engine is live, every step that
\* changes the entry is a step of the engine itself (a pass step or its
\* clearStats handler), never one of the popup or the background script.
C21_EngineSoleWriter ==
    [][(booted /\ store' # store) => EngineStoreStep]_vars

\* nothing of the background script is under way: every read it issued has
\* been answered and handled, every notification and message delivered
BackgroundQuiet ==
    /\ bgInbox = <<>>
    /\ \A r \in Reads : iconReads[r] \in {"none", "done"}

\* C23: once everything the background script waits for has arrived, the
\* icon is the 'on' icon iff the stored esiEnabled is not false; so a read of
\* updateIconForCurrentState that was answered before a change never
\* overwrites the icon that the later change notification set.
C23_IconTracksEnabled ==
    BackgroundQuiet => (icon = "on" <=> stEnabled # "false")

\* invocation p has run its three phases to the end
PassOver(p) == pc[p] = "done" /\ phases[p] = <<1, 2, 3>> /\ call[p] = NoCall

\* C22: provided every issued fetch settles, every pass that has a fetch in
\* flight comes to its end with its three phases run, whatever the outcomes;
\* the step that ends it leaves the final stats in the store; and the engine
\* stays able to handle a later clear request.
C22_EveryPassFinishes ==
    /\ \A p \in Passes : (pc[p] = "fetch") ~> PassOver(p)
    /\ [][\A p \in Passes :
             (pc[p] = "fetch" /\ pc'[p] = "done") =>
                 (PassOver(p)' /\ store' = Stored(stats'))]_vars
    /\ [](booted /\ nEvents < MaxEvents => ENABLED ClearStats)

\* a pass in which a fetch failed has come to its end after a later directive
\* was fetched, and the stats with the failure are in the store
C22_Witness ==
    /\ \E p \in Passes : PassOver(p) /\ Len(counted[p]) = 2
    /\ stats.failed = 1 /\ stats.successful = 1
    /\ ~stats.fragments[1].success
    /\ store = Stored(stats)
    /\ NoFetchInFlight

\* C24: processedElements is emptied only by clearStats: in every other step,
\* the start of a pass included, every node that is in the set stays in it.
C24_ProcessedOnlyClearedByClearStats ==
    [][nClears' = nClears => processedElements \subseteq processedElements']_vars

\* the phase (1 try blocks, 2 standalone includes, 3 comments) of a loop
PhaseOf(loop) == IF loop = "try_loop" THEN 1 ELSE IF loop = "std_loop" THEN 2 ELSE 3

\* C25: the phases of a pass are scanned in the order 1, 2, 3, and the fetch
\* a pass waits for always belongs to the phase scanned last: no phase is
\* scanned while a fetch-and-replace of an earlier phase of that pass is
\* still unsettled.
C25_PhasesInOrderDrained ==
    \A p \in Passes :
       /\ phases[p] \in {<<>>, <<1>>, <<1, 2>>, <<1, 2, 3>>}
       /\ pc[p] = "fetch" => PhaseOf(call[p].loop) = Len(phases[p])
       /\ (pc[p] = "done" /\ phases[p] # <<>>) => phases[p] = <<1, 2, 3>>

\* a pass waits for a fetch of its comment phase after a fetch of an earlier
\* phase has settled
C25_Witness ==
    \E p \in Passes :
       /\ pc[p] = "fetch"
       /\ call[p].loop = "cmt_loop"
       /\ phases[p] = <<1, 2, 3>>
       /\ Len(counted[p]) = 2
       /\ \E i \in DOMAIN stats.fragments : stats.fragments[i].id < call[p].fragmentId

\* the anchor of the fetch invocation p waits for has lost its parent
AnchorGone(p) == FetchInFlight(p) /\ ParentNode(kids, call[p].element) = Null

\* C26: when the anchor has lost its parent while the fetch was in flight,
\* settling the fetch leaves the tree as it is and ends without error (the
\* awaiting loop goes on), and the Fragment is recorded by the outcome of the
\* fetch alone: success, successful + 1 and failed unchanged for a 2xx
\* response; failure and failed + 1 otherwise.
C26_DetachedAnchorSkipped ==
    [][\A p \in Passes :
          AnchorGone(p) =>
             /\ StepOf(p) =>
                  /\ kids' = kids
                  /\ \A n \in DOMAIN kids : attrs'[n] = attrs[n]
                  /\ Len(stats'.fragments) = Len(stats.fragments) + 1
                  /\ stats'.fragments[Len(stats'.fragments)].id = call[p].fragmentId
                  /\ pc'[p] \in {"fetch", "done"}
             /\ \A content \in Bodies :
                  FetchResolved(p, content) =>
                     /\ stats'.fragments[Len(stats'.fragments)].success
                     /\ stats'.successful = stats.successful + 1
                     /\ stats'.failed = stats.failed
             /\ (\E status \in BadStatuses : FetchHttpError(p, status)) =>
                     /\ ~stats'.fragments[Len(stats'.fragments)].success
                     /\ stats'.failed = stats.failed + 1
                     /\ stats'.successful = stats.successful]_vars

\* a 2xx response has arrived for an anchor that had been taken out of the
\* document by another call: two success Fragments, one container
C26_Witness ==
    /\ NoFetchInFlight
    /\ nClears = 0
    /\ Len(stats.fragments) = 2
    /\ stats.fragments[1].success /\ stats.fragments[2].success
    /\ stats.fragments[1].url = stats.fragments[2].url
    /\ \E n \in DOMAIN attrs : attrs[n].fid = stats.fragments[1].id /\ Attached(kids, n)
    /\ \A n \in DOMAIN attrs : attrs[n].fid = stats.fragments[2].id => ~Attached(kids, n)

\* C27: a pass is scheduled exactly once when the engine starts enabled and
\* exactly once for each change notification whose esiEnabled newValue is
\* true; a notification for another key, or with another newValue, and every
\* other step schedule none.
C27_PassTriggering ==
    [][/\ (~booted /\ booted') =>
             scheduled' = scheduled + (IF stEnabled # "false" THEN 1 ELSE 0)
       /\ \A changes \in SettingChanges :
             StorageChanged(changes) =>
                scheduled' = scheduled + (IF changes.esiEnabled = "true" THEN 1 ELSE 0)
       /\ (booted' = booted /\ (nEvents' = nEvents \/ nClears' # nClears)) =>
             scheduled' = scheduled
       /\ scheduled' > scheduled => pc'[scheduled'] = "timer"]_vars

\* the engine started enabled, one notification enabled it again and one
\* disabled it: two passes were scheduled
C27_Witness ==
    /\ booted
    /\ scheduled = 2
    /\ nEvents = 2
    /\ nClears = 0
    /\ enabled = "false"

\* the scripts job has started in this step
Started(j) ==
    IF j \in DOMAIN scriptJobs
    THEN {i \in Range(scriptJobs'[j].ran) : i \notin Range(scriptJobs[j].ran)}
    ELSE Range(scriptJobs'[j].ran)

\* C28: the deferred scripts of a fragment are executed in the order of the
\* markup, one at a time: the scripts started so far are the first ones of
\* the list in order, and the script after an external script is started
\* only in the step in which that script's load settles (the loop was
\* waiting for it).
C28_ScriptsSequential ==
    [][\A j \in DOMAIN scriptJobs' :
          LET job == scriptJobs'[j]
          IN /\ job.ran = [i \in 1..Len(job.ran) |-> i]
             /\ Len(job.ran) <= Len(job.scripts)
             /\ job.state = "loading" =>
                   /\ job.scripts[job.next] = "external"
                   /\ Len(job.ran) = job.next
             /\ \A i \in Started(j) :
                   (i > 1 /\ job.scripts[i - 1] = "external") =>
                       /\ j \in DOMAIN scriptJobs
                       /\ scriptJobs[j].state = "loading"
                       /\ scriptJobs[j].next = i - 1]_vars

\* an external script has loaded and the script after it has run
C28_Witness ==
    \E j \in DOMAIN scriptJobs :
       /\ scriptJobs[j].state = "done"
       /\ scriptJobs[j].scripts = <<"inline", "external", "inline">>
       /\ scriptJobs[j].ran = <<1, 2, 3>>

\* C29: no deferred script of a fragment runs before the replacement step of
\* that fragment: the loop is set up, with nothing run, in the very step
\* that puts the script-stripped markup in the anchor's place, and scripts
\* run only in later steps (the timer, a load event).
C29_ScriptsAfterInsertion ==
    [][\A j \in DOMAIN scriptJobs' :
          IF j \in DOMAIN scriptJobs
          THEN scriptJobs'[j].ran # scriptJobs[j].ran => UNCHANGED <<kids, attrs>>
          ELSE /\ scriptJobs'[j].ran = <<>>
               /\ scriptJobs'[j].state = "timer"
               /\ \E p \in Passes :
                     /\ FetchInFlight(p)
                     /\ StepOf(p)
                     /\ scriptJobs'[j].fid = call[p].fragmentId
                     /\ kids' = ReplaceESIElement(kids, attrs, call[p].element, NewNode,
                                                  call[p].originalComment,
                                                  call[p].isTryBlock)
                     /\ ParentNode(kids, call[p].element) # Null =>
                           /\ Attached(kids', NewNode)
                           /\ attrs'[NewNode].fid = call[p].fragmentId
                           /\ \E content \in ScriptBodies :
                                 attrs'[NewNode].body = <<ContentWithoutScripts(content)>>]_vars

\* the scripts of a fragment have run and its stripped markup is in the page
C29_Witness ==
    \E j \in DOMAIN scriptJobs :
       /\ scriptJobs[j].ran # <<>>
       /\ \E n \in DOMAIN attrs :
             /\ attrs[n].role = "container"
             /\ attrs[n].fid = scriptJobs[j].fid
             /\ attrs[n].body = <<"<p>x</p>">>
             /\ Attached(kids, n)

\* the first comment after start, in document order, that holds </esi:try>
ClosingOf(k, a, start) ==
    LET closing == SelectSeq(CommentsAfter(k, a, start), LAMBDA n : TRYCLOSE \in a[n].marks)
    IN IF closing = <<>> THEN Null ELSE Head(closing)

\* the fetch in flight is anchored on the opening comment of a try block that
\* is still in a tree and is followed by a closing comment
TryAnchor(p) ==
    /\ FetchInFlight(p)
    /\ attrs[call[p].element].type = "comment"
    /\ call[p].isTryBlock
    /\ ParentNode(kids, call[p].element) # Null
    /\ ClosingOf(kids, attrs, call[p].element) # Null

\* the lowest node that holds both x and y
CommonAncestor(k, x, y) ==
    CHOOSE c \in InclusiveAncestors(k, x) \cap InclusiveAncestors(k, y) :
        InclusiveAncestors(k, x) \cap InclusiveAncestors(k, y) \subseteq InclusiveAncestors(k, c)

\* the step leaves new in the place of the opening comment s in document
\* order, under parent, with exactly the nodes of removed gone and every
\* other node under the parent it had
ReplacedBy(s, removed, new, parent) ==
    LET top == TreeRoot(kids, s)
        order == Preorder(kids, top)
        i == IndexOf(order, s)
    IN /\ Preorder(kids', top) = SubSeq(order, 1, i - 1) \o <<new>>
                                   \o RemoveAll(SubSeq(order, i, Len(order)), removed)
       /\ ParentNode(kids', new) = parent
       /\ \A n \in Range(order) \ removed : ParentNode(kids', n) = ParentNode(kids, n)
       /\ \A n \in removed : n \notin Range(Preorder(kids', Root))

\* the nodes from s to e in document order
Between(s, e) ==
    LET order == Preorder(kids, TreeRoot(kids, s))
    IN {order[i] : i \in IndexOf(order, s)..IndexOf(order, e)}

\* C30 as stated: the settle step of a fetch anchored on the opening comment
\* of a try block removes exactly the nodes from the opening comment to the
\* nearest closing comment in document order, and puts the result node where
\* the opening comment was.
C30_RemovesAllBetween ==
    [][\A p \in Passes :
          (TryAnchor(p) /\ StepOf(p)) =>
             LET s == call[p].element
                 e == ClosingOf(kids, attrs, s)
             IN ReplacedBy(s, Between(s, e), NewNode, ParentNode(kids, s))]_vars

\* C30 (amended): the settle step of a fetch anchored on the opening comment
\* of a try block followed by a closing comment removes, in that one step,
\* exactly the nodes from the opening comment to the nearest closing comment
\* except the elements that hold the closing comment (those stay, with what
\* follows the closing comment in them), and the result node takes the
\* opening comment's place in document order, as a child of the lowest node
\* that holds both comments.
C30_RemovesWhollyBetween ==
    [][\A p \in Passes :
          (TryAnchor(p) /\ StepOf(p)) =>
             LET s == call[p].element
                 e == ClosingOf(kids, attrs, s)
             IN ReplacedBy(s, Between(s, e) \ InclusiveAncestors(kids, ParentNode(kids, e)),
                           NewNode, CommonAncestor(kids, s, e))]_vars

\* the try block whose closing comment lies inside the following div has been
\* replaced: the div stays, with the paragraph after the closing comment
C30_Witness ==
    /\ NoFetchInFlight
    /\ nClears = 0
    /\ Len(stats.fragments) = 1
    /\ \E n \in DOMAIN attrs :
          /\ attrs[n].role = "container"
          /\ kids[Root] = <<n, 2>>
          /\ attrs[2].tag = "div"
          /\ kids[2] = <<5>>

\* the fetch in flight is anchored on the opening comment of a try block that
\* is still in a tree and is not followed by a closing comment
OpenTryAnchor(p) ==
    /\ FetchInFlight(p)
    /\ attrs[call[p].element].type = "comment"
    /\ call[p].isTryBlock
    /\ ParentNode(kids, call[p].element) # Null
    /\ ClosingOf(kids, attrs, call[p].element) = Null

\* C31: the settle step of a fetch anchored on the opening comment of a try
\* block without closing comment swaps that comment for the result node:
\* the parent's child list has the result node where the comment was, every
\* other node keeps its children, the nodes that existed keep their
\* attributes, and the call ends as every other call does, with its one
\* Fragment recorded.
C31_OpenTryReplacesOpeningOnly ==
    [][\A p \in Passes :
          (OpenTryAnchor(p) /\ StepOf(p)) =>
             LET s == call[p].element
                 sp == ParentNode(kids, s)
             IN /\ DOMAIN kids' = DOMAIN kids \cup {NewNode}
                /\ kids'[NewNode] = <<>>
                /\ kids'[sp] = [i \in DOMAIN kids[sp] |->
                                   IF kids[sp][i] = s THEN NewNode ELSE kids[sp][i]]
                /\ \A n \in DOMAIN kids \ {sp} : kids'[n] = kids[n]
                /\ \A n \in DOMAIN attrs : attrs'[n] = attrs[n]
                /\ attrs'[NewNode].fid = call[p].fragmentId
                /\ Len(stats'.fragments) = Len(stats.fragments) + 1
                /\ stats'.fragments[Len(stats'.fragments)].id = call[p].fragmentId
                /\ pc'[p] \in {"fetch", "done"}]_vars

\* the opening comment without closing comment has been replaced; the
\* paragraph and the div after it are where they were
C31_Witness ==
    /\ nClears = 0
    /\ Len(stats.fragments) >= 1
    /\ \E n \in DOMAIN attrs :
          /\ n > 4
          /\ attrs[n].fid = stats.fragments[1].id
          /\ kids[Root] = <<n, 2, 3>>
          /\ attrs[2].tag = "p"
          /\ attrs[3].tag = "div"

\* the value of the last entry of the list that carries the name
LastNamed(entries, name) ==
    LET at == {i \in DOMAIN entries : entries[i].name = name}
    IN entries[SetMax(at)].value

\* base headers, overlaid with the forwarded headers when forward is set,
\* overlaid with the entries: a name takes its value from the last entry
\* that carries it, else from the forwarded headers, else from the base
Overlay(entries, forward) ==
    LET names == {entries[i].name : i \in DOMAIN entries}
        forwarded == IF forward THEN DOMAIN ForwardedHeaders ELSE {}
    IN [h \in names \cup forwarded \cup DOMAIN BaseHeaders |->
          IF h \in names THEN LastNamed(entries, h)
          ELSE IF h \in forwarded THEN ForwardedHeaders[h]
          ELSE BaseHeaders[h]]

\* the credentials mode for the held forwardCookies
Credentials == IF forwardCookies = "true" THEN "include" ELSE "same-origin"

\* C32 as stated: the header map of a fetch that is issued is the base
\* headers, overlaid with User-Agent and Accept-Language when forwardHeaders
\* is set, overlaid with every entry of the custom header list in list order;
\* credentials is 'include' iff forwardCookies is set.
C32_EveryEntryOverlaid ==
    [][\A p \in Passes :
          IssueStep(p) =>
             /\ call'[p].options.headers =
                   Overlay(HeaderEntries(customHeaders), forwardHeaders = "true")
             /\ call'[p].options.credentials = Credentials]_vars

\* the entries of the list that have a name and a value
Filled(entries) == SelectSeq(entries, LAMBDA e : e.name # "" /\ e.value # "")

\* C32 (amended): the header map of a fetch that is issued is the base
\* headers, overlaid with User-Agent and Accept-Language when forwardHeaders
\* is set, overlaid in list order with the custom entries that have both a
\* name and a value (an entry with an empty name or an empty value is
\* skipped): for a repeated name the last such entry wins, and such an entry
\* overrides a base or forwarded header of the same name; credentials is
\* 'include' iff forwardCookies is set, otherwise 'same-origin'.
C32_FilledEntriesOverlaid ==
    [][\A p \in Passes :
          IssueStep(p) =>
             /\ call'[p].options.headers =
                   Overlay(Filled(HeaderEntries(customHeaders)), forwardHeaders = "true")
             /\ call'[p].options.credentials = Credentials]_vars

\* a fetch went out under a list with unfilled rows and with forwarding on:
\* X-A has the value of the filled row, no header has an empty name
C32_Witness ==
    \E p \in Passes :
       /\ FetchInFlight(p)
       /\ customHeaders = HeadersBlank
       /\ forwardHeaders = "true"
       /\ forwardCookies = "true"
       /\ call[p].options.headers["X-A"] = "1"
       /\ "" \notin DOMAIN call[p].options.headers
       /\ call[p].options.headers["User-Agent"] = "navigator.userAgent"
       /\ call[p].options.credentials = "include"

\* the calls that have incremented total and have not recorded their outcome
InFlight == {p \in Passes : FetchInFlight(p)}

\* C33: in every reachable state total - (successful + failed) is the number
\* of fetchAndReplaceESI calls between total++ and their record, so that
\* successful + failed never exceeds total, also when clearStats or the
\* restore of loadStats happens while a fetch is in flight.
C33_TotalCountsInFlight ==
    /\ stats.total - (stats.successful + stats.failed) = Cardinality(InFlight)
    /\ stats.successful + stats.failed <= stats.total

\* the Fragments of the history recorded with the given success
Recorded(success) == {i \in DOMAIN stats.fragments : stats.fragments[i].success = success}

\* C34: in every reachable state the number of Fragments with success = TRUE
\* is stats.successful and the number with success = FALSE is stats.failed,
\* hence the length of the history is successful + failed.
C34_HistoryAgreesWithCounters ==
    /\ Cardinality(Recorded(TRUE)) = stats.successful
    /\ Cardinality(Recorded(FALSE)) = stats.failed
    /\ Len(stats.fragments) = stats.successful + stats.failed

\* a success and a failure have been recorded after a clearStats that came
\* while the first fetch was in flight
C34_Witness ==
    /\ nClears = 1
    /\ stats.total = 1
    /\ stats.successful = 1
    /\ stats.failed = 1
    /\ Len(stats.fragments) = 2

\* invocation p, waiting for a fetch, issues its next fetch in this step
NextIssue(p) == FetchInFlight(p) /\ IssueStep(p)

\* C35: within a pass at most one fetch is in flight: a pass issues its next
\* fetch only in the step that records the outcome of its previous one, so
\* that the Fragments of one pass are appended in discovery order, and the
\* ids one pass takes are consecutive.
C35_ConsecutiveIdsPerPass ==
    [][\A p \in Passes :
          NextIssue(p) =>
             /\ stats'.fragments # <<>>
             /\ stats'.fragments[Len(stats'.fragments)].id = call[p].fragmentId
             /\ call'[p].fragmentId = call[p].fragmentId + 1]_vars

\* the entries of p's snapshot that the loop passes over in this step and
\* that have no parent when their turn comes: fetchAndReplaceESI is called
\* for each of them that carries a source
PassedDetached(p) ==
    LET to == IF pc'[p] = "fetch" /\ call'[p].loop = call[p].loop
              THEN idx'[p] - 1 ELSE Len(snap[p])
    IN {snap[p][i] : i \in {j \in (idx[p] + 1)..to :
                              ParentNode(kids', snap[p][j]) = Null}}

\* C36: fetchAndReplaceESI called for an anchor without parent returns at
\* once.  In the step in which a fetch settles and the loop then passes over
\* snapshot entries that the replacement has detached, those calls leave no
\* trace: the tree is the one the replacement made, one Fragment (that of
\* the settled call) is appended, total and the id counter move only for a
\* call that is issued, and a call that is issued has an anchor with a
\* parent.
C36_DetachedAnchorNotStarted ==
    [][\A p \in Passes :
          /\ IssueStep(p) => ParentNode(kids', call'[p].element) # Null
          /\ (FetchInFlight(p) /\ StepOf(p) /\ PassedDetached(p) # {}) =>
                LET issues == IF IssueStep(p) THEN 1 ELSE 0
                IN /\ kids' = ReplaceESIElement(kids, attrs, call[p].element, NewNode,
                                                call[p].originalComment,
                                                call[p].isTryBlock)
                   /\ Len(stats'.fragments) = Len(stats.fragments) + 1
                   /\ stats'.total = stats.total + issues
                   /\ fragmentCounter' = fragmentCounter + issues
                   /\ PassedDetached(p) \cap Range(counted'[p]) = {}]_vars

\* the pass is over; the include comment inside the comment try block was in
\* its snapshot, carries a source, lost its parent to the range replacement
\* and was never counted
C36_Witness ==
    \E p \in Passes :
       /\ pc[p] = "done"
       /\ nClears = 0
       /\ stats.total = 1
       /\ fragmentCounter = 1
       /\ \E e \in Range(snap[p]) :
             /\ CommentSrc(attrs[e]) # NoSrc
             /\ ParentNode(kids, e) = Null
             /\ e \in discovered[p]
             /\ e \notin Range(counted[p])

\* the directives of p's snapshot whose turn has not come yet
Pending(p) ==
    {snap[p][i] : i \in {j \in (idx[p] + 1)..Len(snap[p]) :
                           /\ snap[p][j] \notin processedElements
                           /\ CommentSrc(attrs[snap[p][j]]) # NoSrc}}

\* C37: the settle step of a fetch anchored on the opening comment of a try
\* block removes from the document no directive of the same phase-3
\* snapshot whose turn has not come yet, and when the pass is over every
\* directive of the snapshot has had its own fetch.
C37_RangeSparesPendingDirectives ==
    [][\A p \in Passes :
          (TryAnchor(p) /\ call[p].loop = "cmt_loop" /\ StepOf(p)) =>
             /\ \A e \in Pending(p) : Attached(kids, e) => Attached(kids', e)
             /\ pc'[p] = "done" => Pending(p) \subseteq Range(counted'[p])]_vars

\* C38: once a pass has incremented total, the callback of loadStats changes
\* neither this.stats nor the id counter: the restore never takes effect
\* after a pass has begun recording.
C38_RestoreNotAfterRecording ==
    [][((\E p \in Passes : counted[p] # <<>>) /\ loadPending /\ ~loadPending') =>
          /\ stats' = stats
          /\ fragmentCounter' = fragmentCounter]_vars

\* the call of cleanupOldStats for tab load r goes on after its await
CleanupRuns(r) == cleanups[r].state = "served" /\ cleanups'[r].state = "done"

\* the entry is a history with at least one fragment, all of them recorded
\* more than an hour before the time
OlderThanAnHour(entry, time) ==
    /\ entry.hasFragments
    /\ entry.fragments # <<>>
    /\ \A i \in DOMAIN entry.fragments : entry.fragments[i] + Hour < time

\* C39: cleanupOldStats takes its time when it is called and reads the whole
\* store; when it goes on, it removes exactly the keys that start with
\* 'esiStats_' and whose history, as read, has at least one fragment and
\* its latest fragment more than an hour before that time.  Setting keys,
\* empty histories and histories with a fragment of the last hour (or of
\* exactly one hour ago) stay as they are.
C39_CleanupRemovesOldStats ==
    [][\A r \in TabLoads :
          /\ (cleanups[r].state = "none" /\ cleanups'[r].state = "issued") =>
                cleanups'[r].cutoffTime + Hour = now
          /\ (cleanups[r].state = "issued" /\ cleanups'[r].state = "served") =>
                cleanups'[r].allData = others
          /\ CleanupRuns(r) =>
                /\ \A key \in DOMAIN others :
                      IF /\ key \in StatsKeys
                         /\ key \in DOMAIN cleanups[r].allData
                         /\ OlderThanAnHour(cleanups[r].allData[key],
                                            cleanups[r].cutoffTime + Hour)
                      THEN key \notin DOMAIN others'
                      ELSE key \in DOMAIN others' /\ others'[key] = others[key]
                /\ DOMAIN others' \subseteq DOMAIN others
                /\ UNCHANGED <<stEnabled, stSettings>>]_vars

\* a clean-up has run: the history that was old is gone, the one with a
\* fragment of exactly an hour before and the setting are there
C39_Witness ==
    \E r \in TabLoads :
       /\ cleanups[r].state = "done"
       /\ cleanups[r].cutoffTime = 1
       /\ cleanups[r].allData[StatsPrefix \o "https://h/x"] = StatsEntry(<<0>>)
       /\ StatsPrefix \o "https://h/x" \notin DOMAIN others
       /\ StatsPrefix \o "https://h/y" \in DOMAIN others
       /\ others[StatsPrefix \o "https://h/y"] = StatsEntry(<<1>>)
       /\ others["debugLogging"] = SettingEntry

====
